---- MODULE Spec2Model ----
(***************************************************************************)
(* State-machine model of the virtio multiport console device              *)
(* (devices/src/virtio/console/device.rs and event_handler.rs).            *)
(*                                                                         *)
(* One event-loop thread owns the device and runs one handler at a time;   *)
(* pc is the position of that thread.  The guest runs concurrently: it     *)
(* adds buffers to the queues and places control messages.                 *)
(***************************************************************************)
EXTENDS Integers, Sequences, FiniteSets, TLC

\* ------------------------------------------------------------------ bounds
NumPorts == 2        \* ports.len() of the console under study
MaxData == 2         \* bytes readable on one port's input source (SpecRx)
MaxRxHeads == 2      \* available heads on one port's receive queue (SpecRx)
MaxCtlRx == 2        \* available heads on the control receive queue (Spec)
MaxBatch == 2        \* control messages the guest places before one kick
MaxRefill == 1       \* control-rx heads the guest adds while one control drain runs
MaxSpin == 1         \* counted iterations of a control drain that finds no head
MaxFrame == 2        \* bytes of the longest Ethernet frame on the transport
MaxNetRx == 2        \* available chains on the net receive queue
MaxNetTx == 2        \* available chains on the net transmit queue
MaxSock == 2         \* whole records the socket holds before the peer sends one more
MaxTxHeads == 1      \* available heads on one port's transmit queue
MaxTxRuns == 2       \* process_tx invocations that are counted

\* --------------------------------------------------------- program constants
CONTROL_RXQ_INDEX == 2
CONTROL_TXQ_INDEX == 3
VIRTIO_CONSOLE_DEVICE_READY == 0
VIRTIO_CONSOLE_PORT_ADD == 1
VIRTIO_CONSOLE_PORT_READY == 3
VIRTIO_CONSOLE_CONSOLE_PORT == 4
VIRTIO_CONSOLE_RESIZE == 5
VIRTIO_CONSOLE_PORT_OPEN == 6
ControlSize == 8     \* size_of::<VirtioConsoleControl>(): u32 + u16 + u16, packed(4)
InputChunk == 64     \* the [0u8; 64] read buffer of the event handler's handle_input

Ports == 0 .. (NumPorts - 1)

\* PortStatus
NotReady == "NotReady"
ReadyClosed == "Ready{opened:false}"
ReadyOpened == "Ready{opened:true}"
PortStatus == {NotReady, ReadyClosed, ReadyOpened}

Ready(opened) == IF opened THEN ReadyOpened ELSE ReadyClosed

\* VirtioConsoleControl { id, event, value }
VirtioConsoleControl(id, event, value) == [id |-> id, event |-> event, value |-> value]

NoCmd == VirtioConsoleControl(0, 0, 0)

\* queue index of a port's receive / transmit queue
port_id_to_queue_idx(dir, port_id) ==
    IF dir = "Rx" THEN 2 + (port_id + 1) * 2 ELSE 2 + (port_id + 1) * 2 + 1

\* A descriptor head the guest made available: its length, and whether its
\* address is inside guest memory (an access to it succeeds).
RxHeads == [len : {1, 2}, ok : {TRUE}] \cup [len : {1}, ok : {FALSE}]
CtlRxHeads == [len : {ControlSize, ControlSize + 4}, ok : {TRUE}]
                \cup [len : {ControlSize}, ok : {FALSE}]

\* A head on control-tx: the record the guest wrote, or an unreadable address.
CtlTxMsgs ==
    {VirtioConsoleControl(0, VIRTIO_CONSOLE_DEVICE_READY, v) : v \in {0, 1}}
    \cup {VirtioConsoleControl(i, VIRTIO_CONSOLE_PORT_READY, v) :
             i \in 0 .. NumPorts, v \in {0, 1}}
    \cup {VirtioConsoleControl(i, VIRTIO_CONSOLE_PORT_OPEN, v) :
             i \in 0 .. NumPorts, v \in {0, 1, 2}}
    \cup {VirtioConsoleControl(0, VIRTIO_CONSOLE_RESIZE, 0)}
CtlTxHeads == [cmd : CtlTxMsgs, ok : {TRUE}] \cup [cmd : {NoCmd}, ok : {FALSE}]

\* EventSet bits delivered for a port's input fd
InputEventSets == {{"IN"}, {"HANG_UP"}, {"IN", "HANG_UP"}, {"READ_HANG_UP"}}

\* ----------------------------------------------------------------- network
MAX_BUFFER_SIZE == 65562
QUEUE_SIZE == 256
RX_INDEX == 0
TX_INDEX == 1
PASST_HEADER_LEN == 4
vnet_hdr_len == 16   \* mem::size_of::<virtio_net_hdr_v1>()

\* u32::to_be_bytes / u32::from_be_bytes
to_be_bytes(n) ==
    <<(n \div 16777216) % 256, (n \div 65536) % 256, (n \div 256) % 256, n % 256>>
from_be_bytes(b) == ((b[1] * 256 + b[2]) * 256 + b[3]) * 256 + b[4]

\* An I/O error other than WouldBlock pending on the socket.
IoErr == -1

\* Frame bodies the peer sends and the guest transmits: L bytes, all >= 17.
Body(tag, L) == [i \in 1 .. L |-> tag * 16 + i]
Bodies == {Body(1, L) : L \in 1 .. MaxFrame} \cup {Body(2, MaxFrame)}

\* A descriptor: its length, the bytes it holds (transmit), whether it is
\* write-only, and whether guest memory at its address can be accessed.
Desc(len, data, wo, ok) == [len |-> len, data |-> data, wo |-> wo, ok |-> ok]
WDesc(len) == Desc(len, <<>>, TRUE, TRUE)
RDesc(data) == Desc(Len(data), data, FALSE, TRUE)

\* the virtio-net header the guest driver puts in front of a frame
GuestHdr == [i \in 1 .. vnet_hdr_len |-> 7]

\* Chains the guest offers on the receive queue: large enough in one
\* descriptor, split over three, too small, with a descriptor that is not
\* write-only, with unmapped memory.
NetRxChains ==
    { <<WDesc(vnet_hdr_len + MaxFrame)>>,
      <<WDesc(vnet_hdr_len), WDesc(1), WDesc(MaxFrame)>>,
      <<WDesc(vnet_hdr_len)>>,
      <<WDesc(vnet_hdr_len), RDesc(<<0>>)>>,
      <<Desc(vnet_hdr_len + MaxFrame, <<>>, TRUE, FALSE)>> }

\* Chains the guest offers on the transmit queue: header and frame in one
\* descriptor or in two, a bare frame shorter than the header, a chain with a
\* write-only descriptor, a chain in unmapped memory.
NetTxChains ==
    { <<RDesc(GuestHdr \o b)>> : b \in {Body(1, L) : L \in 1 .. MaxFrame} }
    \cup { <<RDesc(GuestHdr), RDesc(Body(2, MaxFrame))>>,
           <<RDesc(Body(2, MaxFrame))>>,
           <<RDesc(GuestHdr \o Body(2, 1)), WDesc(1)>>,
           <<Desc(vnet_hdr_len + 1, GuestHdr \o Body(2, 1), FALSE, FALSE)>> }

\* A feature bitmap is the set of the names of its bits.
NetFeatures ==
    {"VIRTIO_NET_F_GUEST_CSUM", "VIRTIO_NET_F_CSUM", "VIRTIO_NET_F_GUEST_TSO4",
     "VIRTIO_NET_F_GUEST_UFO", "VIRTIO_NET_F_HOST_TSO4", "VIRTIO_NET_F_HOST_UFO",
     "VIRTIO_F_VERSION_1"}

MAC_ADDR_LEN == 6

\* Option<MacAddr>: None is <<>>, Some(mac) is <<mac>>
None == <<>>
Some(x) == <<x>>

\* ConfigSpace::default()
ConfigSpace_default == [i \in 1 .. MAC_ADDR_LEN |-> 0]

\* Net::new(id, guest_mac)
Net_new_mac(guest_mac) ==
    [device_state |-> "Inactive",
     rx_deferred_irqs |-> FALSE,
     rx_bytes_read |-> 0,
     rx_frame_buf |-> <<>>,     \* the bytes written so far; the rest is 0
     rxq |-> <<>>,              \* queues[RX_INDEX]: available chains
     txq |-> <<>>,              \* queues[TX_INDEX]: available chains
     sock |-> <<>>,             \* bytes readable on the passt socket
     in_flight |-> <<>>,        \* bytes of the last record not yet arrived
     avail_features |-> IF guest_mac = None THEN NetFeatures
                        ELSE NetFeatures \cup {"VIRTIO_NET_F_MAC"},
     acked_features |-> {},
     config_space |-> IF guest_mac = None THEN ConfigSpace_default ELSE guest_mac[1],
     guest_mac |-> guest_mac]

\* Net::new without a MAC address
Net_new == Net_new_mac(None)

\* ----------------------------------------------------------------- console
AVAIL_FEATURES ==
    {"VIRTIO_CONSOLE_F_SIZE", "VIRTIO_CONSOLE_F_MULTIPORT", "VIRTIO_F_VERSION_1"}

\* u16 / u32 in the byte order of the (little-endian) CPU
to_le_bytes16(n) == <<n % 256, (n \div 256) % 256>>
to_le_bytes32(n) ==
    <<n % 256, (n \div 256) % 256, (n \div 65536) % 256, (n \div 16777216) % 256>>

\* VirtioConsoleConfig::new
VirtioConsoleConfig_new(cols, rows, max_nr_ports) ==
    [cols |-> cols, rows |-> rows, max_nr_ports |-> max_nr_ports, emerg_wr |-> 0]

\* VirtioConsoleConfig::update_console_size
update_console_size(config, cols, rows) ==
    [config EXCEPT !.cols = cols, !.rows = rows]

\* ByteValued::as_slice of the packed VirtioConsoleConfig
VirtioConsoleConfig_as_slice(config) ==
    to_le_bytes16(config.cols) \o to_le_bytes16(config.rows)
        \o to_le_bytes32(config.max_nr_ports) \o to_le_bytes32(config.emerg_wr)

\* (cols, rows) as get_win_size returns them
WinSizes == {<<80, 25>>, <<300, 50>>}

\* Console::new: the fields of the device outside the receive and control
\* paths; txq holds the available heads of each port's transmit queue, and
\* tx_runs counts the process_tx invocations so far (up to MaxTxRuns)
\* Console::new(ports) with ports.len() = n; queues is the vector of
\* num_queues = 2 + ports.len() * 2 virtqueues (element i + 1 is queues[i],
\* here the number of heads the guest made available on it)
Console_new_ports(n) ==
    [avail_features |-> AVAIL_FEATURES,
     acked_features |-> {},
     config |-> VirtioConsoleConfig_new(80, 25, n),
     configured |-> FALSE,
     txq |-> [p \in 0 .. (n - 1) |-> <<>>],
     tx_runs |-> 0,
     interrupt_status |-> {},
     intc |-> None,
     irq_line |-> None,
     queues |-> [i \in 1 .. (2 + n * 2) |-> 0]]

Console_new == Console_new_ports(NumPorts)

\* ------------------------------------------------------------------- state
VARIABLES
    device_state,   \* DeviceState: "Inactive" | "Activated"
    ports,          \* Vec<Port>: [status, pending_rx, console] per port id
    cmd_queue,      \* VecDeque<VirtioConsoleControl>
    ctl_rxq,        \* queues[CONTROL_RXQ_INDEX]: available heads
    ctl_txq,        \* queues[CONTROL_TXQ_INDEX]: available heads
    rxq,            \* queues[port rx]: available heads, per port
    input,          \* bytes readable on each port's input source
    pc,             \* position of the event-loop thread
    loc,            \* locals of the running handler
    ev,             \* the event being handled (or handled last)
    trace,          \* queue and interrupt operations of the running handler
    spins,          \* iterations of the running control drain that found no head
    net,            \* the Net device, its two queues and the passt socket
    console_dev     \* Console: features, config space, configured, transmit queues

vars == <<device_state, ports, cmd_queue, ctl_rxq, ctl_txq, rxq, input,
          pc, loc, ev, trace, spins, net, console_dev>>

\* ----------------------------------------------------------------- helpers
Min(a, b) == IF a < b THEN a ELSE b

\* One entry of trace: the operation, the queue index (the port id for
\* "process_rx" and "in_buffer"), a length, the control message written, and
\* for a receive-queue add_used the status the port had at that moment.
TS(op, q, len, cmd, st) == [op |-> op, q |-> q, len |-> len, cmd |-> cmd, st |-> st]
T(op, q, len, cmd) == TS(op, q, len, cmd, "")

Pop(q, head) == T("pop", q, head.len, NoCmd)
AddUsed(q, len) == T("add_used", q, len, NoCmd)
UndoPop(q) == T("undo_pop", q, 0, NoCmd)
Irq == T("irq", 0, 0, NoCmd)

NoLoc == [used_any |-> FALSE, control_processed |-> FALSE,
          ports_to_resume |-> <<>>, ret |-> "none", placed |-> 0,
          refills |-> 0]

NoEv == [kind |-> "none", port |-> 0, events |-> {}, pre |-> <<>>]

\* the event a handler is started for, with the state it found
Event(kind, p, events) ==
    [kind |-> kind, port |-> p, events |-> events,
     pre |-> [ports |-> ports, rxq |-> rxq, input |-> input, dev |-> console_dev]]

Port_new(p) == [status |-> NotReady, pending_rx |-> FALSE, console |-> (p = 0)]

Init ==
    /\ device_state = "Inactive"
    /\ ports = [p \in Ports |-> Port_new(p)]
    /\ cmd_queue = <<>>
    /\ ctl_rxq = <<>>
    /\ ctl_txq = <<>>
    /\ rxq = [p \in Ports |-> <<>>]
    /\ input = [p \in Ports |-> 0]
    /\ pc = "idle"
    /\ loc = NoLoc
    /\ ev = NoEv
    /\ trace = <<>>
    /\ spins = 0
    /\ net = Net_new
    /\ console_dev = Console_new

\* VirtioDevice::activate, activation event written
activate ==
    /\ pc = "idle"
    /\ device_state = "Inactive"
    /\ device_state' = "Activated"
    /\ UNCHANGED <<console_dev, net, ports, cmd_queue, ctl_rxq, ctl_txq, rxq, input,
                   pc, loc, ev, trace, spins>>

\* ------------------------------------------------------------ environment
\* The guest makes a head available on the receive queue of a port.
GuestAddRx(p, head, max) ==
    /\ pc = "idle"
    /\ Len(rxq[p]) < max
    /\ rxq' = [rxq EXCEPT ![p] = Append(@, head)]
    /\ UNCHANGED <<console_dev, net, device_state, ports, cmd_queue, ctl_rxq, ctl_txq, input,
                   pc, loc, ev, trace, spins>>

\* The guest makes a head available on the control receive queue.  The guest
\* runs on its own threads, so this also happens while a control drain runs:
\* there it refills the queue the drain found empty.
GuestAddCtlRx(head, max) ==
    /\ pc \in {"idle", "control_rx"}
    /\ Len(ctl_rxq) < max
    /\ ctl_rxq' = Append(ctl_rxq, head)
    /\ IF pc = "control_rx"
       THEN /\ ctl_rxq = <<>>
            /\ cmd_queue # <<>>
            /\ loc.refills < MaxRefill
            /\ loc' = [loc EXCEPT !.refills = @ + 1]
       ELSE UNCHANGED loc
    /\ UNCHANGED <<console_dev, net, device_state, ports, cmd_queue, ctl_txq, rxq, input,
                   pc, ev, trace, spins>>

\* The host side writes n bytes to the input source of a port.
HostInput(p, n, max) ==
    /\ pc = "idle"
    /\ input[p] + n <= max
    /\ input' = [input EXCEPT ![p] = @ + n]
    /\ UNCHANGED <<console_dev, net, device_state, ports, cmd_queue, ctl_rxq, ctl_txq, rxq,
                   pc, loc, ev, trace, spins>>

\* ------------------------------------------------------------ receive path
\* Port::read_until_would_block(mem, head.addr, head.len): what the input
\* source yields into the head.
read_until_would_block(head, data) ==
    IF ~head.ok THEN [kind |-> "err", n |-> 0]
    ELSE IF data = 0 THEN [kind |-> "would_block", n |-> 0]
    ELSE [kind |-> "ok", n |-> Min(head.len, data)]

\* Mutant: the head is marked used with its whole length.
used_len_head(head, n) == head.len

\* queue.add_used(mem, head.index, len as u32): the used length of a receive
\* head that took n bytes
used_len(head, n) == n

\* The data-path part of the state a handler works on, with the value the
\* last call returned.
DP == [ports |-> ports, rxq |-> rxq, input |-> input, trace |-> trace, ret |-> FALSE]

\* the while loop of process_rx
RECURSIVE process_rx_loop(_, _, _)
process_rx_loop(d, port_id, used_any) ==
    LET q == port_id_to_queue_idx("Rx", port_id) IN
    IF d.rxq[port_id] = <<>>
    THEN [d EXCEPT !.ret = used_any]
    ELSE
      LET head == Head(d.rxq[port_id])
          result == read_until_would_block(head, d.input[port_id])
          popped == Append(d.trace, Pop(q, head))
      IN  CASE result.kind = "would_block" ->
                 \* Ok(0) | WouldBlock: pending_rx = false; undo_pop; break
                 [d EXCEPT !.ports[port_id].pending_rx = FALSE,
                           !.trace = Append(popped, UndoPop(q)),
                           !.ret = used_any]
            [] result.kind = "ok" ->
                 process_rx_loop(
                     [d EXCEPT !.rxq[port_id] = Tail(@),
                               !.input[port_id] = @ - result.n,
                               !.trace = Append(Append(popped,
                                                 T("read", q, result.n, NoCmd)),
                                                TS("add_used", q,
                                                   used_len(head, result.n), NoCmd,
                                                   d.ports[port_id].status))],
                     port_id, TRUE)
            [] result.kind = "err" ->
                 \* logged; the loop goes on to the next head
                 process_rx_loop(
                     [d EXCEPT !.rxq[port_id] = Tail(@),
                               !.trace = Append(popped, T("error", q, 0, NoCmd))],
                     port_id, used_any)

\* Mutant: process_rx does not set pending_rx before its loop.
process_rx_keep_pending(d, port_id) ==
    process_rx_loop([d EXCEPT !.trace = Append(@, T("process_rx", port_id, 0, NoCmd))],
                    port_id, FALSE)

\* Console::process_rx(port_id)
process_rx(d, port_id) ==
    process_rx_loop([d EXCEPT !.ports[port_id].pending_rx = TRUE,
                              !.trace = Append(@, T("process_rx", port_id, 0, NoCmd))],
                    port_id, FALSE)

\* Console::resume_rx(port_id)
resume_rx(d, port_id) ==
    IF ~d.ports[port_id].pending_rx \/ d.ports[port_id].status # ReadyOpened
    THEN [d EXCEPT !.ret = FALSE]
    ELSE process_rx(d, port_id)

\* Console::signal_used_queue
signal_used_queue(tr) == Append(tr, Irq)

\* Mutant: the IRQ is raised before the handler body runs.
process_end_irq_first(tr, raise_irq) == IF raise_irq THEN <<Irq>> \o tr ELSE tr

\* the end of Subscriber::process: if raise_irq { signal_used_queue }
process_end(tr, raise_irq) == IF raise_irq THEN signal_used_queue(tr) ELSE tr

\* Subscriber::process, source == rxq: the kick of a port's receive queue
RxQueueEvent(p) ==
    /\ pc = "idle"
    /\ device_state = "Activated"
    /\ LET d == process_rx(DP, p) IN
        /\ ports' = d.ports
        /\ rxq' = d.rxq
        /\ input' = d.input
        /\ trace' = process_end(d.trace, d.ret)
    /\ ev' = Event("rxq", p, {"IN"})
    /\ pc' = "done"
    /\ UNCHANGED <<console_dev, net, device_state, cmd_queue, ctl_rxq, ctl_txq, loc, spins>>

\* ------------------------------------------------------------ control plane
\* The guest places a head on control-tx.  It does so before the kick (the
\* first head, see ControlTxEvent) and while process_control_tx runs.
GuestAddCtlTx(head) ==
    /\ pc = "control_tx"
    /\ ctl_txq = <<>>
    /\ loc.placed < MaxBatch
    /\ ctl_txq' = <<head>>
    /\ loc' = [loc EXCEPT !.placed = @ + 1]
    /\ UNCHANGED <<console_dev, net, device_state, ports, cmd_queue, ctl_rxq, rxq, input,
                   pc, ev, trace, spins>>

\* Subscriber::process, source == control_txq: process_control_tx starts
ControlTxEvent(head) ==
    /\ pc = "idle"
    /\ device_state = "Activated"
    /\ ctl_txq' = <<head>>
    /\ pc' = "control_tx"
    /\ loc' = [NoLoc EXCEPT !.placed = 1]
    /\ ev' = Event("control_txq", 0, {"IN"})
    /\ UNCHANGED <<console_dev, net, device_state, ports, cmd_queue, ctl_rxq, rxq, input,
                   trace, spins>>

\* Mutant: the PORT_ADD messages pushed in descending id order.
PortAddsDescending ==
    [p \in 1 .. NumPorts |-> VirtioConsoleControl(NumPorts - p, VIRTIO_CONSOLE_PORT_ADD, 0)]

\* for port_id in 0..self.ports.len() { cmd_queue.push_back(PORT_ADD) }
PortAdds == [p \in 1 .. NumPorts |-> VirtioConsoleControl(p - 1, VIRTIO_CONSOLE_PORT_ADD, 0)]

\* Mutant: every port is answered with PORT_OPEN, the console port too.
port_ready_cmd_always_open(console, id) ==
    VirtioConsoleControl(id, VIRTIO_CONSOLE_PORT_OPEN, 1)

\* the follow-up of PORT_READY(id, 1)
port_ready_cmd(console, id) ==
    IF console THEN VirtioConsoleControl(id, VIRTIO_CONSOLE_CONSOLE_PORT, 1)
    ELSE VirtioConsoleControl(id, VIRTIO_CONSOLE_PORT_OPEN, 1)

\* Mutant: the port is resumed on a close as well.
port_open_resume_always(to_resume, id, opened) == Append(to_resume, id)

\* if opened { ports_to_resume.push(cmd.id) }
port_open_resume(to_resume, id, opened) ==
    IF opened THEN Append(to_resume, id) ELSE to_resume

\* The match on cmd.event in process_control_tx, for one control message:
\* the ports, the command FIFO and ports_to_resume after it; panic when the
\* message indexes ports out of range.
control_tx_cmd(c, cmd) ==
    CASE cmd.event = VIRTIO_CONSOLE_DEVICE_READY ->
           [c EXCEPT !.cmd_queue = @ \o PortAdds]
      [] cmd.event = VIRTIO_CONSOLE_PORT_READY ->
           IF cmd.value # 1 THEN c
           ELSE IF cmd.id \notin Ports THEN [c EXCEPT !.panic = TRUE]
           ELSE [c EXCEPT
                   !.ports[cmd.id].status = Ready(FALSE),
                   !.cmd_queue =
                       Append(@, port_ready_cmd(c.ports[cmd.id].console, cmd.id))]
      [] cmd.event = VIRTIO_CONSOLE_PORT_OPEN ->
           IF cmd.value \notin {0, 1} THEN c
           ELSE IF cmd.id \notin Ports THEN [c EXCEPT !.panic = TRUE]
           ELSE [c EXCEPT
                   !.ports[cmd.id].status = Ready(cmd.value = 1),
                   !.ports_to_resume = port_open_resume(@, cmd.id, cmd.value = 1)]
      [] OTHER -> c

\* One iteration of the while loop of process_control_tx: pop a head, mark it
\* used, read the message and act on it.
ControlTxHead ==
    /\ pc = "control_tx"
    /\ ctl_txq # <<>>
    /\ LET head == Head(ctl_txq)
           c0 == [ports |-> ports, cmd_queue |-> cmd_queue,
                  ports_to_resume |-> loc.ports_to_resume, panic |-> FALSE]
           c == IF head.ok THEN control_tx_cmd(c0, head.cmd) ELSE c0
       IN
        /\ ctl_txq' = Tail(ctl_txq)
        /\ trace' = trace \o <<T("pop", CONTROL_TXQ_INDEX, ControlSize, NoCmd),
                                AddUsed(CONTROL_TXQ_INDEX, ControlSize)>>
        /\ ports' = c.ports
        /\ cmd_queue' = c.cmd_queue
        /\ loc' = [loc EXCEPT !.used_any = TRUE,
                              !.ports_to_resume = c.ports_to_resume]
        /\ pc' = IF c.panic THEN "panic" ELSE "control_tx"
    /\ UNCHANGED <<console_dev, net, device_state, ctl_rxq, rxq, input, ev, spins>>

\* for port_id in ports_to_resume { resume_rx(port_id) }
RECURSIVE resume_all(_, _)
resume_all(d, to_resume) ==
    IF to_resume = <<>> THEN d
    ELSE resume_all(resume_rx(d, Head(to_resume)), Tail(to_resume))

\* The tail of process_control_tx after the control drain, and the end of
\* Subscriber::process: resume the ports, return used_any, raise the IRQ.
control_tx_finish(used_any) ==
    LET d == resume_all(DP, loc.ports_to_resume) IN
    /\ ports' = d.ports
    /\ rxq' = d.rxq
    /\ input' = d.input
    /\ trace' = process_end(d.trace, used_any)
    /\ loc' = [loc EXCEPT !.used_any = used_any]
    /\ pc' = "done"

\* process_control_tx after its while loop found control-tx empty
ControlTxEnd ==
    /\ pc = "control_tx"
    /\ ctl_txq = <<>>
    /\ IF cmd_queue # <<>>
       THEN /\ pc' = "control_rx"
            /\ loc' = [loc EXCEPT !.ret = "process_control_tx",
                                  !.control_processed = FALSE]
            /\ UNCHANGED <<ports, rxq, input, trace>>
       ELSE control_tx_finish(loc.used_any)
    /\ UNCHANGED <<console_dev, net, device_state, cmd_queue, ctl_rxq, ctl_txq, ev, spins>>

\* Subscriber::process, source == control_rxq: process_control_rx starts
ControlRxEvent ==
    /\ pc = "idle"
    /\ device_state = "Activated"
    /\ pc' = "control_rx"
    /\ loc' = [NoLoc EXCEPT !.ret = "process"]
    /\ ev' = Event("control_rxq", 0, {"IN"})
    /\ UNCHANGED <<console_dev, net, device_state, ports, cmd_queue, ctl_rxq, ctl_txq, rxq, input,
                   trace, spins>>

\* Mutant: the delivered message stays at the front of the command FIFO.
ControlRxDeliver_keep_front ==
    /\ pc = "control_rx"
    /\ cmd_queue # <<>>
    /\ ctl_rxq # <<>>
    /\ Head(ctl_rxq).ok
    /\ LET head == Head(ctl_rxq) IN
        trace' = trace \o <<Pop(CONTROL_RXQ_INDEX, head),
                            T("write", CONTROL_RXQ_INDEX, ControlSize, Head(cmd_queue)),
                            AddUsed(CONTROL_RXQ_INDEX, head.len)>>
    /\ ctl_rxq' = Tail(ctl_rxq)
    /\ loc' = [loc EXCEPT !.control_processed = TRUE]
    /\ UNCHANGED <<console_dev, net, device_state, ports, cmd_queue, ctl_txq, rxq, input,
                   pc, ev, spins>>

\* process_control_rx, loop iteration: a head is popped and the front
\* message written to it
ControlRxDeliver ==
    /\ pc = "control_rx"
    /\ cmd_queue # <<>>
    /\ ctl_rxq # <<>>
    /\ Head(ctl_rxq).ok
    /\ LET head == Head(ctl_rxq) IN
        trace' = trace \o <<Pop(CONTROL_RXQ_INDEX, head),
                            T("write", CONTROL_RXQ_INDEX, ControlSize, Head(cmd_queue)),
                            AddUsed(CONTROL_RXQ_INDEX, head.len)>>
    /\ ctl_rxq' = Tail(ctl_rxq)
    /\ cmd_queue' = Tail(cmd_queue)
    /\ loc' = [loc EXCEPT !.control_processed = TRUE]
    /\ UNCHANGED <<console_dev, net, device_state, ports, ctl_txq, rxq, input, pc, ev, spins>>

\* process_control_rx, loop iteration: a head is popped, write_slice fails
ControlRxWriteFail ==
    /\ pc = "control_rx"
    /\ cmd_queue # <<>>
    /\ ctl_rxq # <<>>
    /\ ~Head(ctl_rxq).ok
    /\ trace' = trace \o <<Pop(CONTROL_RXQ_INDEX, Head(ctl_rxq)),
                           T("error", CONTROL_RXQ_INDEX, 0, NoCmd)>>
    /\ ctl_rxq' = Tail(ctl_rxq)
    /\ UNCHANGED <<console_dev, net, device_state, ports, cmd_queue, ctl_txq, rxq, input,
                   pc, loc, ev, spins>>

\* process_control_rx, loop iteration: pop finds no head; the message is
\* logged and the loop goes round again
ControlRxMiss ==
    /\ pc = "control_rx"
    /\ cmd_queue # <<>>
    /\ ctl_rxq = <<>>
    /\ spins' = Min(spins + 1, MaxSpin)
    /\ UNCHANGED <<console_dev, net, device_state, ports, cmd_queue, ctl_rxq, ctl_txq, rxq, input,
                   pc, loc, ev, trace>>

\* process_control_rx returns used_any (the command FIFO is empty) to its caller
ControlRxReturn ==
    /\ pc = "control_rx"
    /\ cmd_queue = <<>>
    /\ CASE loc.ret = "process" ->
              /\ trace' = process_end(trace, loc.control_processed)
              /\ pc' = "done"
              /\ UNCHANGED <<ports, rxq, input, loc>>
         [] loc.ret = "process_control_tx" ->
              control_tx_finish(loc.used_any \/ loc.control_processed)
         [] loc.ret = "push_control_cmd" ->
              \* push_control_cmd signals; handle_input's result is dropped
              /\ trace' = IF loc.control_processed THEN signal_used_queue(trace)
                          ELSE trace
              /\ pc' = "done"
              /\ UNCHANGED <<ports, rxq, input, loc>>
    /\ UNCHANGED <<console_dev, net, device_state, cmd_queue, ctl_rxq, ctl_txq, ev, spins>>

\* ------------------------------------------------------------ input events
HangUpBits == {"HANG_UP", "READ_HANG_UP"}

\* push_control_cmd: append, then run the control drain
push_control_cmd(cmd) ==
    /\ cmd_queue' = Append(cmd_queue, cmd)
    /\ pc' = "control_rx"
    /\ loc' = [NoLoc EXCEPT !.ret = "push_control_cmd"]

\* Console::handle_input of device.rs, called by Subscriber::process for the
\* input fd of port_id
handle_input(event_set, port_id) ==
    /\ pc = "idle"
    /\ device_state = "Activated"
    /\ ev' = Event("input", port_id, event_set)
    /\ CASE ports[port_id].status = NotReady ->
              /\ ports' = [ports EXCEPT ![port_id].pending_rx = TRUE]
              /\ pc' = "done"
              /\ UNCHANGED <<cmd_queue, rxq, input, loc, trace>>
         [] ports[port_id].status = ReadyClosed ->
              /\ pc' = "done"
              /\ UNCHANGED <<ports, cmd_queue, rxq, input, loc, trace>>
         [] ports[port_id].status = ReadyOpened ->
              LET d == IF "IN" \in event_set THEN process_rx(DP, port_id) ELSE DP IN
              /\ rxq' = d.rxq
              /\ input' = d.input
              /\ trace' = d.trace
              /\ IF event_set \cap HangUpBits # {}
                 THEN /\ ports' = [d.ports EXCEPT ![port_id].status = Ready(FALSE)]
                      /\ push_control_cmd(VirtioConsoleControl(port_id,
                                              VIRTIO_CONSOLE_PORT_OPEN, 0))
                 ELSE /\ ports' = d.ports
                      /\ pc' = "done"
                      /\ UNCHANGED <<cmd_queue, loc>>
    /\ UNCHANGED <<console_dev, net, device_state, ctl_rxq, ctl_txq, spins>>

\* Console::handle_input of event_handler.rs
handle_input_eh(event_set, port_id) ==
    /\ pc = "idle"
    /\ device_state = "Activated"
    /\ ev' = Event("input_eh", port_id, event_set)
    /\ CASE ports[port_id].status = NotReady ->
              /\ pc' = "done"
              /\ UNCHANGED <<ports, cmd_queue, rxq, input, loc, trace>>
         [] ports[port_id].status = ReadyClosed ->
              /\ pc' = "done"
              /\ UNCHANGED <<ports, cmd_queue, rxq, input, loc, trace>>
         [] ports[port_id].status = ReadyOpened ->
              \* input.read(&mut out); in_buffer.extend(&out[..count]); process_rx()
              LET count == Min(InputChunk, input[port_id])
                  d0 == [DP EXCEPT !.input[port_id] = @ - count,
                                   !.trace = Append(@, T("in_buffer", port_id, count,
                                                         NoCmd))]
                  d == IF "IN" \in event_set THEN process_rx(d0, port_id) ELSE DP
              IN
              /\ rxq' = d.rxq
              /\ input' = d.input
              /\ trace' = IF d.ret THEN signal_used_queue(d.trace) ELSE d.trace
              /\ IF "HANG_UP" \in event_set
                 THEN /\ ports' = [d.ports EXCEPT ![port_id].status = Ready(FALSE)]
                      /\ push_control_cmd(VirtioConsoleControl(0,
                                              VIRTIO_CONSOLE_PORT_OPEN, 0))
                 ELSE /\ ports' = d.ports
                      /\ pc' = "done"
                      /\ UNCHANGED <<cmd_queue, loc>>
    /\ UNCHANGED <<console_dev, net, device_state, ctl_rxq, ctl_txq, spins>>

\* Subscriber::process returns to the event loop
Return ==
    /\ pc = "done"
    /\ pc' = "idle"
    /\ loc' = NoLoc
    /\ ev' = NoEv
    /\ trace' = <<>>
    /\ spins' = 0
    /\ UNCHANGED <<console_dev, net, device_state, ports, cmd_queue, ctl_rxq, ctl_txq, rxq, input>>

\* The handlers of the device: every step of the event-loop thread but the
\* control-tx kick, which takes the head the guest placed.
Device ==
    \/ activate
    \/ \E p \in Ports : RxQueueEvent(p)
    \/ ControlTxHead
    \/ ControlTxEnd
    \/ ControlRxEvent
    \/ ControlRxDeliver
    \/ ControlRxWriteFail
    \/ ControlRxMiss
    \/ ControlRxReturn
    \/ \E p \in Ports, es \in InputEventSets : handle_input(es, p)
    \/ \E p \in Ports, es \in InputEventSets : handle_input_eh(es, p)
    \/ Return

\* The last port: the one whose receive path the environment drives.
RxPort == NumPorts - 1

\* Control-plane specification: every control message, control-rx heads of
\* every kind; the last port has at most one unit receive head and one input
\* byte.
UnitHead == [len |-> 1, ok |-> TRUE]

Next ==
    \/ Device
    \/ \E head \in CtlTxHeads : ControlTxEvent(head)
    \/ \E head \in CtlTxHeads : GuestAddCtlTx(head)
    \/ \E head \in CtlRxHeads : GuestAddCtlRx(head, MaxCtlRx)
    \/ GuestAddRx(RxPort, UnitHead, 1)
    \/ HostInput(RxPort, 1, 1)

Spec == Init /\ [][Next]_vars

\* Receive-path specification: receive heads of every kind and input of every
\* amount on the last port; at most one control-rx head; the control messages
\* that change a port's status.
RxCtlTxHeads ==
    {h \in CtlTxHeads : /\ h.ok
                        /\ h.cmd.id \in Ports
                        /\ \/ h.cmd.event = VIRTIO_CONSOLE_PORT_READY /\ h.cmd.value = 1
                           \/ h.cmd.event = VIRTIO_CONSOLE_PORT_OPEN /\ h.cmd.value \in {0, 1}}

NextRx ==
    \/ Device
    \/ \E head \in RxCtlTxHeads : ControlTxEvent(head)
    \/ \E head \in RxCtlTxHeads : GuestAddCtlTx(head)
    \/ \E head \in {h \in CtlRxHeads : h.len = ControlSize} : GuestAddCtlRx(head, 1)
    \/ \E head \in RxHeads : GuestAddRx(RxPort, head, MaxRxHeads)
    \/ \E n \in 1 .. MaxData : HostInput(RxPort, n, MaxData)

SpecRx == Init /\ [][NextRx]_vars

\* ========================================================== network device
console_vars == <<device_state, ports, cmd_queue, ctl_rxq, ctl_txq, rxq, input,
                  loc, spins, console_dev>>

\* one operation of the running net handler on a queue, guest memory, the
\* socket or the interrupt line; bytes holds the bytes moved, or the
\* descriptor chain of a pop
NT(op, q, len, st, bytes) ==
    [op |-> op, q |-> q, len |-> len, cmd |-> NoCmd, st |-> st, bytes |-> bytes]

\* the event a net handler is started for, with the device it found
NetEvent(kind) == [kind |-> kind, port |-> 0, events |-> {"IN"}, pre |-> net]

Max(a, b) == IF a > b THEN a ELSE b
Drop(seq, n) == SubSeq(seq, n + 1, Len(seq))

\* A byte buffer is the sequence of its bytes up to the last one written;
\* the bytes beyond are still 0, as the array was initialized.
BufAt(buf, i) == IF i <= Len(buf) THEN buf[i] ELSE 0
BufSlice(buf, n) == [i \in 1 .. n |-> BufAt(buf, i)]
\* buf[from - 1 .. from - 1 + data.len()].copy_from_slice(data)
BufWrite(buf, from, data) ==
    [i \in 1 .. Max(Len(buf), from + Len(data) - 1) |->
        IF i >= from /\ i < from + Len(data) THEN data[i - from + 1] ELSE BufAt(buf, i)]

\* the bytes a read of the socket returns now: those before a pending error
RECURSIVE Readable(_)
Readable(sock) ==
    IF sock = <<>> \/ Head(sock) = IoErr THEN <<>>
    ELSE <<Head(sock)>> \o Readable(Tail(sock))

\* Passt::read_frame(buf), buf = rx_frame_buf[off..]
read_frame(sock, buf, off) ==
    LET avail == Readable(sock) IN
    IF sock = <<>>
    THEN [res |-> "WouldBlock", n |-> 0, sock |-> sock, buf |-> buf]
    ELSE IF avail = <<>>
    THEN [res |-> "UnspecifiedIO", n |-> 0, sock |-> Tail(sock), buf |-> buf]
    ELSE IF Len(avail) < PASST_HEADER_LEN
    THEN \* read_size != 4: todo!()
         [res |-> "panic", n |-> 0, sock |-> Drop(sock, Len(avail)), buf |-> buf]
    ELSE LET frame_length == from_be_bytes(SubSeq(avail, 1, PASST_HEADER_LEN))
             rest == Drop(sock, PASST_HEADER_LEN)
             data == Readable(rest)
             size == Min(frame_length, Len(data))
         IN  IF frame_length > MAX_BUFFER_SIZE - off
             THEN \* &mut buf[bytes_read..frame_length]: range end out of bounds
                  [res |-> "panic", n |-> 0, sock |-> rest, buf |-> buf]
             ELSE IF frame_length > 0 /\ data = <<>>
             THEN \* recv fails (EAGAIN or the pending error): panic!
                  [res |-> "panic", n |-> 0, sock |-> rest, buf |-> buf]
             ELSE \* the first recv returns size bytes; bytes_read == size
                  [res |-> "Ok", n |-> frame_length, sock |-> Drop(rest, size),
                   buf |-> BufWrite(buf, off + 1, SubSeq(data, 1, size))]

\* write_virtio_net_hdr(buf): buf[0..len].fill(0)
write_virtio_net_hdr(buf) == BufWrite(buf, 1, [i \in 1 .. vnet_hdr_len |-> 0])

\* Net::read_into_rx_frame_buf_from_passt
read_into_rx_frame_buf_from_passt(n) ==
    LET r == read_frame(n.sock, write_virtio_net_hdr(n.rx_frame_buf), vnet_hdr_len) IN
    [res |-> r.res,
     net |-> [n EXCEPT !.sock = r.sock,
                       !.rx_frame_buf = r.buf,
                       !.rx_bytes_read = IF r.res = "Ok" THEN vnet_hdr_len + r.n ELSE @]]

\* Mutant: every descriptor passes for write-only.
is_write_only_any(desc) == TRUE

\* descriptor.is_write_only()
is_write_only(desc) == desc.wo

\* Net::do_write_frame_to_guest: the walk of the descriptor chain
RECURSIVE write_chain(_, _, _, _)
write_chain(chain, i, frame_slice, tr) ==
    IF i > Len(chain) \/ frame_slice = <<>>
    THEN [result |-> "Ok", frame_slice |-> frame_slice, tr |-> tr]
    ELSE IF ~is_write_only(chain[i])
    THEN [result |-> "ReadOnlyDescriptor", frame_slice |-> frame_slice, tr |-> tr]
    ELSE LET len == Min(Len(frame_slice), chain[i].len) IN
         IF chain[i].ok
         THEN write_chain(chain, i + 1, Drop(frame_slice, len),
                          Append(tr, NT("write_slice", i, len, "", SubSeq(frame_slice, 1, len))))
         ELSE [result |-> "GuestMemory", frame_slice |-> frame_slice, tr |-> tr]

\* Mutant: the header is not counted in the used length.
rx_used_len_no_hdr(result, frame_len) ==
    IF result # "Ok" THEN 0 ELSE frame_len - vnet_hdr_len

\* let used_len = if result.is_err() { 0 } else { frame_len as u32 }
rx_used_len(result, frame_len) == IF result # "Ok" THEN 0 ELSE frame_len

\* Net::do_write_frame_to_guest
do_write_frame_to_guest(n, tr) ==
    IF n.rxq = <<>>
    THEN [net |-> n, result |-> "EmptyQueue",
          tr |-> Append(tr, NT("pop", RX_INDEX, 0, "EmptyQueue", <<>>))]
    ELSE LET chain == Head(n.rxq)
             frame_slice == BufSlice(n.rx_frame_buf, n.rx_bytes_read)
             w == write_chain(chain, 1, frame_slice,
                              Append(tr, NT("pop", RX_INDEX, Len(chain), "", chain)))
             result == IF w.result = "Ok" /\ w.frame_slice # <<>>
                       THEN "DescriptorChainTooSmall" ELSE w.result
             ulen == rx_used_len(result, Len(frame_slice))
         IN  [net |-> [n EXCEPT !.rxq = Tail(@), !.rx_deferred_irqs = TRUE],
              result |-> result,
              tr |-> Append(w.tr, NT("add_used", RX_INDEX, ulen, result, <<>>))]

RECURSIVE write_frame_to_guest_loop(_, _, _)
write_frame_to_guest_loop(n, tr, iterations) ==
    IF iterations = 0 THEN [net |-> n, tr |-> tr, ret |-> FALSE]
    ELSE LET r == do_write_frame_to_guest(n, tr) IN
         CASE r.result = "Ok" -> [net |-> r.net, tr |-> r.tr, ret |-> TRUE]
           [] r.result = "EmptyQueue" -> [net |-> r.net, tr |-> r.tr, ret |-> FALSE]
           [] OTHER -> write_frame_to_guest_loop(r.net, r.tr, iterations - 1)

\* Mutant: a failed delivery is not retried on the next chain.
write_frame_to_guest_once(n, tr) == write_frame_to_guest_loop(n, tr, 1)

\* Net::write_frame_to_guest; max_iterations = queues[RX_INDEX].actual_size()
write_frame_to_guest(n, tr) == write_frame_to_guest_loop(n, tr, QUEUE_SIZE)

NetIrq == NT("irq", 0, 0, "", <<>>)

\* Net::signal_used_queue
Net_signal_used_queue(n, tr) ==
    [net |-> [n EXCEPT !.rx_deferred_irqs = FALSE], tr |-> Append(tr, NetIrq)]

\* Mutant: the IRQ is raised whether or not a head was marked used.
signal_rx_used_queue_always(n, tr) == Net_signal_used_queue(n, tr)

\* Net::signal_rx_used_queue
signal_rx_used_queue(n, tr) ==
    IF n.rx_deferred_irqs THEN Net_signal_used_queue(n, tr) ELSE [net |-> n, tr |-> tr]

\* Net::process_rx
RECURSIVE Net_process_rx(_, _)
Net_process_rx(n, tr) ==
    LET r == read_into_rx_frame_buf_from_passt(n) IN
    CASE r.res = "Ok" ->
           LET w == write_frame_to_guest(
                        r.net,
                        Append(tr, NT("read_frame", 0, r.net.rx_bytes_read - vnet_hdr_len, "Ok",
                                      BufSlice(r.net.rx_frame_buf, r.net.rx_bytes_read))))
           IN  Net_process_rx(w.net, w.tr)
      [] r.res = "WouldBlock" ->
           LET g == signal_rx_used_queue(r.net, Append(tr, NT("read_frame", 0, 0, "WouldBlock", <<>>)))
           IN  [net |-> g.net, tr |-> g.tr, res |-> "Ok"]
      [] r.res = "panic" ->
           [net |-> r.net, tr |-> Append(tr, NT("read_frame", 0, 0, "panic", <<>>)), res |-> "panic"]
      [] OTHER ->
           [net |-> r.net, tr |-> Append(tr, NT("read_frame", 0, 0, r.res, <<>>)),
            res |-> "PasstError"]

\* Mutant: the receive path runs although the queue has no available chain.
rx_queue_is_empty_never(n) == FALSE

\* self.queues[RX_INDEX].is_empty(mem)
rx_queue_is_empty(n) == n.rxq = <<>>

\* Mutant: the length prefix counts the header too.
write_frame_len_total(hdr_len, buf) ==
    IF hdr_len < PASST_HEADER_LEN \/ ~(Len(buf) > hdr_len)
    THEN [res |-> "panic", wire |-> <<>>]
    ELSE [res |-> "Ok",
          wire |-> Drop(BufWrite(buf, hdr_len - PASST_HEADER_LEN + 1, to_be_bytes(Len(buf))),
                        hdr_len - PASST_HEADER_LEN)]

\* Passt::write_frame(hdr_len, buf): the two assertions, and the bytes handed
\* to write_all
write_frame(hdr_len, buf) ==
    IF hdr_len < PASST_HEADER_LEN \/ ~(Len(buf) > hdr_len)
    THEN [res |-> "panic", wire |-> <<>>]
    ELSE LET frame_length == Len(buf) - hdr_len IN
         [res |-> "Ok",
          wire |-> Drop(BufWrite(buf, hdr_len - PASST_HEADER_LEN + 1,
                                 to_be_bytes(frame_length)),
                        hdr_len - PASST_HEADER_LEN)]

\* Net::process_tx: the walk that fills tx_iovec
RECURSIVE tx_gather(_, _, _)
tx_gather(chain, i, tx_iovec) ==
    IF i > Len(chain) THEN tx_iovec
    ELSE IF is_write_only(chain[i]) THEN <<>>
    ELSE tx_gather(chain, i + 1, Append(tx_iovec, chain[i]))

\* Net::process_tx: the copy into tx_frame_buf; frame is tx_frame_buf[..read_count]
RECURSIVE tx_copy(_, _, _)
tx_copy(tx_iovec, i, frame) ==
    IF i > Len(tx_iovec) THEN frame
    ELSE LET limit == Min(Len(frame) + tx_iovec[i].len, MAX_BUFFER_SIZE) IN
         IF tx_iovec[i].ok
         THEN tx_copy(tx_iovec, i + 1, frame \o SubSeq(tx_iovec[i].data, 1, limit - Len(frame)))
         ELSE <<>>

\* Mutant: the IRQ is raised at the end of every invocation.
tx_signal_always(n, tr, raise_irq) == Net_signal_used_queue(n, tr)

\* Net::process_tx: if raise_irq { self.signal_used_queue()?; }
tx_signal(n, tr, raise_irq) ==
    IF raise_irq THEN Net_signal_used_queue(n, tr) ELSE [net |-> n, tr |-> tr]

\* Net::process_tx; the fail_at-th write to the socket fails with fail_kind
RECURSIVE Net_process_tx(_, _, _, _, _)
Net_process_tx(n, tr, raise_irq, fail_at, fail_kind) ==
    IF n.txq = <<>>
    THEN LET g == tx_signal(n, tr, raise_irq) IN [net |-> g.net, tr |-> g.tr, res |-> "Ok"]
    ELSE LET chain == Head(n.txq)
             popped == [n EXCEPT !.txq = Tail(@)]
             tr1 == Append(tr, NT("pop", TX_INDEX, Len(chain), "", chain))
             frame == tx_copy(tx_gather(chain, 1, <<>>), 1, <<>>)
             w == write_frame(vnet_hdr_len, frame)
         IN  IF w.res = "panic"
             THEN [net |-> popped, res |-> "panic",
                   tr |-> Append(tr1, NT("write_frame", 0, Len(frame), "panic", <<>>))]
             ELSE IF fail_at = 1
             THEN [net |-> popped, res |-> "PasstError",
                   tr |-> Append(tr1, NT("write_frame", 0, Len(frame), fail_kind, <<>>))]
             ELSE Net_process_tx(
                      popped,
                      tr1 \o <<NT("write_frame", 0, Len(frame), "Ok", w.wire),
                               NT("add_used", TX_INDEX, 0, "", <<>>)>>,
                      TRUE,
                      IF fail_at > 0 THEN fail_at - 1 ELSE 0,
                      fail_kind)

\* ------------------------------------------------------- network: actions
\* VirtioDevice::activate of Net
Net_activate ==
    /\ pc = "idle"
    /\ net.device_state = "Inactive"
    /\ net' = [net EXCEPT !.device_state = "Activated"]
    /\ UNCHANGED <<console_vars, pc, ev, trace>>

\* The guest makes a chain available on the receive queue.
GuestAddNetRx(chain) ==
    /\ pc = "idle"
    /\ Len(net.rxq) < MaxNetRx
    /\ net' = [net EXCEPT !.rxq = Append(@, chain)]
    /\ UNCHANGED <<console_vars, pc, ev, trace>>

\* The guest makes a chain available on the transmit queue.
GuestAddNetTx(chain) ==
    /\ pc = "idle"
    /\ Len(net.txq) < MaxNetTx
    /\ net' = [net EXCEPT !.txq = Append(@, chain)]
    /\ UNCHANGED <<console_vars, pc, ev, trace>>

\* The record a peer writes for a frame body: what write_frame with
\* hdr_len = PASST_HEADER_LEN puts on the wire.
Record(body) ==
    write_frame(PASST_HEADER_LEN, [i \in 1 .. PASST_HEADER_LEN |-> 0] \o body).wire

\* How much of a record is readable at first: half the prefix, the prefix,
\* all but the last byte, all of it.
Splits(body) ==
    {2, PASST_HEADER_LEN, PASST_HEADER_LEN + Len(body) - 1, PASST_HEADER_LEN + Len(body)}

\* The peer writes a record; its first j bytes are readable at once.  A record
\* that arrives in two parts is written to a socket with nothing readable.
PeerSend(body, j) ==
    /\ pc = "idle"
    /\ net.in_flight = <<>>
    /\ Len(net.sock) <= (MaxSock - 1) * (PASST_HEADER_LEN + MaxFrame)
    /\ (j < PASST_HEADER_LEN + Len(body)) => net.sock = <<>>
    /\ net' = [net EXCEPT !.sock = @ \o SubSeq(Record(body), 1, j),
                          !.in_flight = Drop(Record(body), j)]
    /\ UNCHANGED <<console_vars, pc, ev, trace>>

\* The rest of the record becomes readable.
PeerArrive ==
    /\ pc = "idle"
    /\ net.in_flight # <<>>
    /\ net' = [net EXCEPT !.sock = @ \o net.in_flight, !.in_flight = <<>>]
    /\ UNCHANGED <<console_vars, pc, ev, trace>>

\* The socket gets an error condition (the next read past the readable bytes
\* fails with an error other than WouldBlock).
PeerError ==
    /\ pc = "idle"
    /\ net.in_flight = <<>>
    /\ \A i \in DOMAIN net.sock : net.sock[i] # IoErr
    /\ net' = [net EXCEPT !.sock = Append(@, IoErr)]
    /\ UNCHANGED <<console_vars, pc, ev, trace>>

\* Net::process_passt_rx_event
process_passt_rx_event ==
    /\ pc = "idle"
    /\ net.device_state = "Activated"
    /\ ev' = NetEvent("passt_rx")
    /\ IF rx_queue_is_empty(net)
       THEN /\ pc' = "done"
            /\ UNCHANGED <<console_dev, net, trace>>
       ELSE LET r == Net_process_rx(net, <<>>) IN
            /\ net' = r.net
            /\ trace' = r.tr
            /\ pc' = IF r.res = "panic" THEN "panic" ELSE "done"
    /\ UNCHANGED console_vars

\* Net::process_rx_queue_event
process_rx_queue_event ==
    /\ pc = "idle"
    /\ net.device_state = "Activated"
    /\ ev' = NetEvent("rx_queue")
    /\ pc' = "done"
    /\ UNCHANGED <<console_vars, net, trace>>

\* Net::process_tx_queue_event
process_tx_queue_event(fail_at, fail_kind) ==
    /\ pc = "idle"
    /\ net.device_state = "Activated"
    /\ ev' = [NetEvent("tx_queue") EXCEPT !.port = fail_at]
    /\ LET r == Net_process_tx(net, <<>>, FALSE, fail_at, fail_kind) IN
       /\ net' = r.net
       /\ trace' = r.tr
       /\ pc' = IF r.res = "panic" THEN "panic" ELSE "done"
    /\ UNCHANGED console_vars

\* Receive-path specification of the net device.
NextNetRx ==
    \/ Net_activate
    \/ \E chain \in NetRxChains : GuestAddNetRx(chain)
    \/ \E body \in Bodies : \E j \in Splits(body) : PeerSend(body, j)
    \/ PeerArrive
    \/ PeerError
    \/ process_passt_rx_event
    \/ process_rx_queue_event
    \/ Return

SpecNetRx == Init /\ [][NextNetRx]_vars

\* Transmit-path specification of the net device.
NextNetTx ==
    \/ Net_activate
    \/ \E chain \in NetTxChains : GuestAddNetTx(chain)
    \/ \E fail_at \in 0 .. MaxNetTx, fail_kind \in {"WouldBlock", "UnspecifiedIO"} :
          process_tx_queue_event(fail_at, fail_kind)
    \/ Return

SpecNetTx == Init /\ [][NextNetTx]_vars

\* ========================================================== device adapter
\* Mutant: the device passes for activated from construction on.
is_activated_always(state) == TRUE

\* VirtioDevice::is_activated
is_activated(state) == state = "Activated"

\* Mutant: the device is activated although the event fd could not be written.
VirtioDevice_activate_unchecked(state, evt_ok) ==
    [ret |-> IF evt_ok THEN "Ok" ELSE "BadActivate", device_state |-> "Activated"]

\* VirtioDevice::activate(mem) of both devices; evt_ok: activate_evt.write(1)
\* succeeds
VirtioDevice_activate(state, evt_ok) ==
    IF ~evt_ok THEN [ret |-> "BadActivate", device_state |-> state]
    ELSE [ret |-> "Ok", device_state |-> "Activated"]

\* Mutant: the copy starts at the first config byte whatever the offset.
read_config_from_start(config_slice, offset, data) ==
    LET src == SubSeq(config_slice, 1, Min(Len(data), Len(config_slice)))
    IN  src \o Drop(data, Len(src))

\* VirtioDevice::read_config(offset, data) of both devices: data afterwards
read_config(config_slice, offset, data) ==
    LET config_len == Len(config_slice) IN
    IF offset >= config_len THEN data
    ELSE LET end == offset + Len(data)
             src == SubSeq(config_slice, offset + 1, Min(end, config_len))
         IN  \* data.write_all(src): src goes to the start of data
             src \o Drop(data, Len(src))

\* Mutant: the cached MAC address is not refreshed.
Net_write_config_keep_mac(n, offset, data) ==
    IF offset + Len(data) > Len(n.config_space) THEN n
    ELSE [n EXCEPT !.config_space = BufWrite(@, offset + 1, data)]

\* Net::write_config(offset, data)
Net_write_config(n, offset, data) ==
    LET config_len == Len(n.config_space) IN
    IF offset + Len(data) > config_len THEN n
    ELSE LET config_space_bytes == BufWrite(n.config_space, offset + 1, data) IN
         [n EXCEPT !.config_space = config_space_bytes,
                   !.guest_mac = Some(SubSeq(config_space_bytes, 1, MAC_ADDR_LEN))]

\* Console::write_config(offset, data): a warning
Console_write_config(c, offset, data) == c

\* Mutant: bits the device does not offer are dropped.
set_acked_features_masked(dev, acked_features) ==
    [dev EXCEPT !.acked_features = acked_features \cap dev.avail_features]

\* VirtioDevice::set_acked_features of both devices
set_acked_features(dev, acked_features) ==
    [dev EXCEPT !.acked_features = acked_features]

\* the two ways the guest is notified: Gic::set_irq(irq_line) on the
\* interrupt controller, and interrupt_evt.write(1)
set_irq(tr, irq_line) == Append(tr, T("set_irq", irq_line, 0, NoCmd))
interrupt_evt_write(tr) == Append(tr, T("interrupt_evt", 0, 1, NoCmd))

\* Console::signal_used_queue with the interrupt fields of the device;
\* self.irq_line.unwrap() panics when no line was set
Console_signal_used_queue(c, tr) ==
    LET c1 == [c EXCEPT !.interrupt_status = @ \cup {"VIRTIO_MMIO_INT_VRING"}]
        tr1 == signal_used_queue(tr)
    IN  IF c.intc # None
        THEN IF c.irq_line = None
             THEN [c |-> c1, tr |-> tr1, panic |-> TRUE]
             ELSE [c |-> c1, tr |-> set_irq(tr1, c.irq_line[1]), panic |-> FALSE]
        ELSE [c |-> c1, tr |-> interrupt_evt_write(tr1), panic |-> FALSE]

\* Console::signal_config_update
ConfigIrq == T("config_irq", 0, 0, NoCmd)
signal_config_update(c, tr) ==
    [c |-> [c EXCEPT !.interrupt_status = @ \cup {"VIRTIO_MMIO_INT_CONFIG"}],
     tr |-> interrupt_evt_write(Append(tr, ConfigIrq))]

\* Mutant: the config-changed interrupt is signalled by every process_tx.
process_tx_configure_every_time(c, tr) ==
    signal_config_update([c EXCEPT !.configured = TRUE], tr)

\* Console::process_tx: if !self.configured { ... }
process_tx_configure(c, tr) ==
    IF ~c.configured
    THEN signal_config_update([c EXCEPT !.configured = TRUE], tr)
    ELSE [c |-> c, tr |-> tr]

\* the while loop of Console::process_tx; write_to(...).unwrap() panics when
\* guest memory at head.addr cannot be read
RECURSIVE process_tx_loop(_, _, _, _)
process_tx_loop(c, port_id, tr, used_any) ==
    LET q == port_id_to_queue_idx("Tx", port_id) IN
    IF c.txq[port_id] = <<>>
    THEN [c |-> c, tr |-> tr, ret |-> used_any, panic |-> FALSE]
    ELSE LET head == Head(c.txq[port_id])
             popped == [c EXCEPT !.txq[port_id] = Tail(@)]
             tr1 == Append(tr, Pop(q, head))
         IN  IF ~head.ok
             THEN [c |-> popped, tr |-> Append(tr1, T("error", q, 0, NoCmd)),
                   ret |-> used_any, panic |-> TRUE]
             ELSE process_tx_loop(popped, port_id,
                                  tr1 \o <<T("output", q, head.len, NoCmd),
                                           AddUsed(q, head.len)>>,
                                  TRUE)

\* Console::process_tx(port_id)
process_tx(c, port_id, tr) ==
    LET b == process_tx_configure([c EXCEPT !.tx_runs = Min(@ + 1, MaxTxRuns)],
                                  Append(tr, T("process_tx", port_id, 0, NoCmd)))
    IN  process_tx_loop(b.c, port_id, b.tr, FALSE)

\* ---------------------------------------------------- adapter: environment
\* heads the guest offers on a transmit queue
TxHeads == [len : {2}, ok : {TRUE}] \cup [len : {1}, ok : {FALSE}]

\* feature sets a driver acknowledges: all that is offered, and one with a
\* bit the device does not offer
ConsoleAcks == {AVAIL_FEATURES, {"VIRTIO_F_VERSION_1", "VIRTIO_CONSOLE_F_EMERG_WRITE"}}
NetAcks == {NetFeatures, {"VIRTIO_F_VERSION_1", "VIRTIO_NET_F_MQ"}}

\* guest_mac given to Net::new
MacOptions == {None, Some(<<2, 0, 0, 0, 0, 1>>)}

\* destination buffers of read_config, source buffers of write_config
Dst(n) == [i \in 1 .. n |-> 170]
DstBufs == {Dst(1), Dst(2)}
SrcBufs == {<<9>>, <<9, 8>>}
ReadOffsets(config_len) == {0, config_len - 1, config_len}
WriteOffsets(config_len) == {config_len - 2, config_len - 1, config_len}

\* a call of the transport into the device, with the devices it found
Call(kind, dev) ==
    [kind |-> kind, port |-> 0, events |-> {dev},
     pre |-> [device_state |-> device_state, dev |-> console_dev, net |-> net]]

adapter_unchanged == <<ports, cmd_queue, ctl_rxq, ctl_txq, rxq, input, loc, spins>>

\* ------------------------------------------------------- adapter: actions
\* Console::activate
Console_activate(evt_ok) ==
    /\ pc = "idle"
    /\ LET r == VirtioDevice_activate(device_state, evt_ok) IN
        /\ device_state' = r.device_state
        /\ trace' = <<NT("activate", 0, 0, r.ret, <<>>)>>
    /\ ev' = Call("activate", "console")
    /\ pc' = "done"
    /\ UNCHANGED <<adapter_unchanged, console_dev, net>>

\* Net::activate
Net_activate_call(evt_ok) ==
    /\ pc = "idle"
    /\ LET r == VirtioDevice_activate(net.device_state, evt_ok) IN
        /\ net' = [net EXCEPT !.device_state = r.device_state]
        /\ trace' = <<NT("activate", 0, 0, r.ret, <<>>)>>
    /\ ev' = Call("activate", "net")
    /\ pc' = "done"
    /\ UNCHANGED <<adapter_unchanged, console_dev, device_state>>

\* Console::set_acked_features
Console_set_acked_features(acked_features) ==
    /\ pc = "idle"
    /\ console_dev' = set_acked_features(console_dev, acked_features)
    /\ trace' = <<NT("set_acked_features", 0, 0, "", acked_features)>>
    /\ ev' = Call("set_acked_features", "console")
    /\ pc' = "done"
    /\ UNCHANGED <<adapter_unchanged, device_state, net>>

\* Net::set_acked_features
Net_set_acked_features(acked_features) ==
    /\ pc = "idle"
    /\ net' = set_acked_features(net, acked_features)
    /\ trace' = <<NT("set_acked_features", 0, 0, "", acked_features)>>
    /\ ev' = Call("set_acked_features", "net")
    /\ pc' = "done"
    /\ UNCHANGED <<adapter_unchanged, device_state, console_dev>>

\* Console::read_config
Console_read_config(offset, data) ==
    /\ pc = "idle"
    /\ trace' = <<NT("read_config", offset, Len(data), "", data),
                  NT("data", 0, Len(data), "",
                     read_config(VirtioConsoleConfig_as_slice(console_dev.config),
                                 offset, data))>>
    /\ ev' = Call("read_config", "console")
    /\ pc' = "done"
    /\ UNCHANGED <<adapter_unchanged, device_state, console_dev, net>>

\* Net::read_config
Net_read_config(offset, data) ==
    /\ pc = "idle"
    /\ trace' = <<NT("read_config", offset, Len(data), "", data),
                  NT("data", 0, Len(data), "",
                     read_config(net.config_space, offset, data))>>
    /\ ev' = Call("read_config", "net")
    /\ pc' = "done"
    /\ UNCHANGED <<adapter_unchanged, device_state, console_dev, net>>

\* Console::write_config
Console_write_config_call(offset, data) ==
    /\ pc = "idle"
    /\ console_dev' = Console_write_config(console_dev, offset, data)
    /\ trace' = <<NT("write_config", offset, Len(data), "", data)>>
    /\ ev' = Call("write_config", "console")
    /\ pc' = "done"
    /\ UNCHANGED <<adapter_unchanged, device_state, net>>

\* Net::write_config
Net_write_config_call(offset, data) ==
    /\ pc = "idle"
    /\ net' = Net_write_config(net, offset, data)
    /\ trace' = <<NT("write_config", offset, Len(data), "", data)>>
    /\ ev' = Call("write_config", "net")
    /\ pc' = "done"
    /\ UNCHANGED <<adapter_unchanged, device_state, console_dev>>

\* The guest makes a head available on the transmit queue of a port.
GuestAddTx(p, head) ==
    /\ pc = "idle"
    /\ Len(console_dev.txq[p]) < MaxTxHeads
    /\ console_dev' = [console_dev EXCEPT !.txq[p] = Append(@, head)]
    /\ UNCHANGED <<adapter_unchanged, device_state, net, pc, ev, trace>>

\* Subscriber::process, source == txq: the kick of a port's transmit queue
TxQueueEvent(p) ==
    /\ pc = "idle"
    /\ is_activated(device_state)
    /\ LET r == process_tx(console_dev, p, <<>>)
           \* if raise_irq { self.signal_used_queue() }
           s == IF r.panic \/ ~r.ret THEN [c |-> r.c, tr |-> r.tr, panic |-> r.panic]
                ELSE Console_signal_used_queue(r.c, r.tr)
       IN
        /\ console_dev' = s.c
        /\ trace' = s.tr
        /\ pc' = IF s.panic THEN "panic" ELSE "done"
    /\ ev' = Event("txq", p, {"IN"})
    /\ UNCHANGED <<adapter_unchanged, device_state, net>>

\* Subscriber::process, source == sigwinch_evt: handle_sigwinch_event and
\* Console::update_console_size
handle_sigwinch_event(cols, rows) ==
    /\ pc = "idle"
    /\ is_activated(device_state)
    /\ LET s == signal_config_update(
                    [console_dev EXCEPT !.config = update_console_size(@, cols, rows)],
                    <<>>)
       IN  /\ console_dev' = s.c
           /\ trace' = s.tr
    /\ ev' = Event("sigwinch", 0, {"IN"})
    /\ pc' = "done"
    /\ UNCHANGED <<adapter_unchanged, device_state, net>>

\* Subscriber::process while the console is not activated: a warning
InactiveEvent(kind, p) ==
    /\ pc = "idle"
    /\ ~is_activated(device_state)
    /\ ev' = Event(kind, p, {"IN"})
    /\ pc' = "done"
    /\ UNCHANGED <<adapter_unchanged, device_state, console_dev, net, trace>>

\* Console::set_intc
Console_set_intc ==
    /\ pc = "idle"
    /\ console_dev' = [console_dev EXCEPT !.intc = Some("gic")]
    /\ UNCHANGED <<adapter_unchanged, device_state, net, pc, ev, trace>>

\* Console::set_irq_line
Console_set_irq_line(irq) ==
    /\ pc = "idle"
    /\ console_dev' = [console_dev EXCEPT !.irq_line = Some(irq)]
    /\ UNCHANGED <<adapter_unchanged, device_state, net, pc, ev, trace>>

\* Adapter specification: the calls of the transport into both devices, the
\* console's transmit path and window-size events, events while inactive.
InitDev ==
    /\ device_state = "Inactive"
    /\ ports = [p \in Ports |-> Port_new(p)]
    /\ cmd_queue = <<>>
    /\ ctl_rxq = <<>>
    /\ ctl_txq = <<>>
    /\ rxq = [p \in Ports |-> <<>>]
    /\ input = [p \in Ports |-> 0]
    /\ pc = "idle"
    /\ loc = NoLoc
    /\ ev = NoEv
    /\ trace = <<>>
    /\ spins = 0
    /\ net \in {Net_new_mac(guest_mac) : guest_mac \in MacOptions}
    /\ console_dev = Console_new

NextDev ==
    \/ \E evt_ok \in BOOLEAN : Console_activate(evt_ok)
    \/ \E evt_ok \in BOOLEAN : Net_activate_call(evt_ok)
    \/ \E acked \in ConsoleAcks : Console_set_acked_features(acked)
    \/ \E acked \in NetAcks : Net_set_acked_features(acked)
    \/ \E offset \in ReadOffsets(Len(VirtioConsoleConfig_as_slice(Console_new.config))) :
          \E data \in DstBufs : Console_read_config(offset, data)
    \/ \E offset \in ReadOffsets(Len(ConfigSpace_default)) :
          \E data \in DstBufs : Net_read_config(offset, data)
    \/ \E offset \in WriteOffsets(Len(VirtioConsoleConfig_as_slice(Console_new.config))) :
          \E data \in SrcBufs : Console_write_config_call(offset, data)
    \/ \E offset \in WriteOffsets(Len(ConfigSpace_default)) :
          \E data \in SrcBufs : Net_write_config_call(offset, data)
    \/ \E head \in TxHeads : GuestAddTx(RxPort, head)
    \/ \E p \in Ports : TxQueueEvent(p)
    \/ \E ws \in WinSizes : handle_sigwinch_event(ws[1], ws[2])
    \/ \E kind \in {"rxq", "txq", "control_txq", "control_rxq", "input", "sigwinch"} :
          InactiveEvent(kind, RxPort)
    \/ Return

SpecDev == InitDev /\ [][NextDev]_vars

\* Interrupt specification: the console with and without an interrupt
\* controller, its transmit path and window-size events.
IrqLines == {5, 6}

NextIrq ==
    \/ Console_set_intc
    \/ \E irq \in IrqLines : Console_set_irq_line(irq)
    \/ \E evt_ok \in BOOLEAN : Console_activate(evt_ok)
    \/ \E head \in TxHeads : GuestAddTx(RxPort, head)
    \/ \E p \in Ports : TxQueueEvent(p)
    \/ \E ws \in WinSizes : handle_sigwinch_event(ws[1], ws[2])
    \/ Return

SpecIrq == InitDev /\ [][NextIrq]_vars

\* Queue specification: consoles built with 1 .. MaxNewPorts ports; the guest
\* makes heads available on the queues of the vector, and the handlers index
\* the vector: queues[CONTROL_RXQ_INDEX], queues[CONTROL_TXQ_INDEX] and
\* queues[port_id_to_queue_idx(direction, port_id)].  An index outside the
\* vector panics.
MaxNewPorts == 3

\* &mut self.queues[idx], then the pops of the handler's loop
queues_index(c, idx, tr) ==
    IF idx + 1 \in DOMAIN c.queues
    THEN [c |-> [c EXCEPT !.queues[idx + 1] = 0],
          tr |-> Append(tr, T("queue", idx, c.queues[idx + 1], NoCmd)),
          panic |-> FALSE]
    ELSE [c |-> c, tr |-> Append(tr, T("index_out_of_bounds", idx, 0, NoCmd)),
          panic |-> TRUE]

\* The guest makes a head available on queue idx of the device.
GuestAddQueue(idx) ==
    /\ pc = "idle"
    /\ idx + 1 \in DOMAIN console_dev.queues
    /\ console_dev.queues[idx + 1] = 0
    /\ console_dev' = [console_dev EXCEPT !.queues[idx + 1] = 1]
    /\ UNCHANGED <<adapter_unchanged, device_state, net, pc, ev, trace>>

\* process_rx(port_id) / process_tx(port_id): the queue of the port
PortQueueAccess(dir, port_id) ==
    /\ pc = "idle"
    /\ is_activated(device_state)
    /\ port_id < console_dev.config.max_nr_ports
    /\ LET r == queues_index(console_dev, port_id_to_queue_idx(dir, port_id), <<>>) IN
        /\ console_dev' = r.c
        /\ trace' = r.tr
        /\ pc' = IF r.panic THEN "panic" ELSE "done"
    /\ ev' = Event(IF dir = "Rx" THEN "rxq" ELSE "txq", port_id, {"IN"})
    /\ UNCHANGED <<adapter_unchanged, device_state, net>>

\* process_control_rx / process_control_tx: the control queues
ControlQueueAccess(idx) ==
    /\ pc = "idle"
    /\ is_activated(device_state)
    /\ LET r == queues_index(console_dev, idx, <<>>) IN
        /\ console_dev' = r.c
        /\ trace' = r.tr
        /\ pc' = IF r.panic THEN "panic" ELSE "done"
    /\ ev' = Event(IF idx = CONTROL_RXQ_INDEX THEN "control_rxq" ELSE "control_txq",
                   0, {"IN"})
    /\ UNCHANGED <<adapter_unchanged, device_state, net>>

InitQueues ==
    /\ device_state = "Inactive"
    /\ ports = [p \in Ports |-> Port_new(p)]
    /\ cmd_queue = <<>>
    /\ ctl_rxq = <<>>
    /\ ctl_txq = <<>>
    /\ rxq = [p \in Ports |-> <<>>]
    /\ input = [p \in Ports |-> 0]
    /\ pc = "idle"
    /\ loc = NoLoc
    /\ ev = NoEv
    /\ trace = <<>>
    /\ spins = 0
    /\ net = Net_new
    /\ console_dev \in {Console_new_ports(n) : n \in 1 .. MaxNewPorts}

NextQueues ==
    \/ \E evt_ok \in BOOLEAN : Console_activate(evt_ok)
    \/ \E idx \in 0 .. (2 + MaxNewPorts * 2 - 1) : GuestAddQueue(idx)
    \/ \E dir \in {"Rx", "Tx"} : \E port_id \in 0 .. (MaxNewPorts - 1) :
          PortQueueAccess(dir, port_id)
    \/ \E idx \in {CONTROL_RXQ_INDEX, CONTROL_TXQ_INDEX} : ControlQueueAccess(idx)
    \/ Return

SpecQueues == InitQueues /\ [][NextQueues]_vars

\* Drain specification, for what eventually happens: the control plane with
\* a guest that keeps offering a usable control-rx head whenever a running
\* drain finds the queue empty.  The drain is a loop on the device's thread,
\* which keeps running (weak fairness); the guest's vCPUs run beside it and
\* add the head again and again (strong fairness: a head with a bad address
\* may come in between).
GoodCtlRxHead == [len |-> ControlSize, ok |-> TRUE]

LiveCtlTxHeads ==
    {h \in CtlTxHeads :
        /\ h.ok
        /\ \/ h.cmd.event = VIRTIO_CONSOLE_DEVICE_READY /\ h.cmd.value = 1
           \/ h.cmd.event = VIRTIO_CONSOLE_PORT_READY /\ h.cmd.value = 1
           \/ h.cmd.event = VIRTIO_CONSOLE_PORT_OPEN /\ h.cmd.value = 1 /\ h.cmd.id = RxPort}

\* The guest refills control-rx with a usable head while a drain waits for one.
GuestKeepsAddingCtlRx ==
    /\ pc = "control_rx"
    /\ ctl_rxq = <<>>
    /\ cmd_queue # <<>>
    /\ ctl_rxq' = <<GoodCtlRxHead>>
    /\ UNCHANGED <<console_dev, net, device_state, ports, cmd_queue, ctl_txq, rxq, input,
                   pc, loc, ev, trace, spins>>

\* the loop of process_control_rx and its return
ControlDrain ==
    \/ ControlRxDeliver
    \/ ControlRxWriteFail
    \/ ControlRxMiss
    \/ ControlRxReturn

NextLive ==
    \/ Device
    \/ \E head \in LiveCtlTxHeads : ControlTxEvent(head)
    \/ \E head \in LiveCtlTxHeads : GuestAddCtlTx(head)
    \/ \E head \in CtlRxHeads : GuestAddCtlRx(head, 1)
    \/ GuestKeepsAddingCtlRx

SpecLive ==
    /\ Init
    /\ [][NextLive]_vars
    /\ WF_vars(ControlDrain)
    /\ SF_vars(GuestKeepsAddingCtlRx)

\* ================================================================== claims
\* the control messages written to control-rx by the running handler, in order
Writes == SelectSeq(trace, LAMBDA e : e.op = "write")
CmdsWritten == [i \in 1 .. Len(Writes) |-> Writes[i].cmd]

Range(f) == {f[i] : i \in DOMAIN f}

\* the control message process_control_tx is about to read, if any
TxCmdAt(event) ==
    /\ pc = "control_tx"
    /\ ctl_txq # <<>>
    /\ Head(ctl_txq).ok
    /\ Head(ctl_txq).cmd.event = event

C1_Appended ==
    TxCmdAt(VIRTIO_CONSOLE_DEVICE_READY) =>
        /\ Len(cmd_queue') = Len(cmd_queue) + NumPorts
        /\ SubSeq(cmd_queue', 1, Len(cmd_queue)) = cmd_queue
        /\ \A i \in 1 .. NumPorts :
              cmd_queue'[Len(cmd_queue) + i] =
                  [id |-> i - 1, event |-> VIRTIO_CONSOLE_PORT_ADD, value |-> 0]

C1_Order ==
    LET all == CmdsWritten \o cmd_queue
        adds == SelectSeq(all, LAMBDA c : c.event = VIRTIO_CONSOLE_PORT_ADD)
    IN  /\ \A i \in 1 .. Len(adds) : adds[i].id = (i - 1) % NumPorts
        /\ pc = "done" => cmd_queue = <<>>

\* C1: each DEVICE_READY read by process_control_tx appends exactly NumPorts
\* PORT_ADD messages to the command FIFO, ids 0..NumPorts-1 ascending; the
\* messages written to control-rx followed by the ones still in the FIFO keep
\* that order, and when the handler is done all of them have been written.
C1_DeviceReadyPortAdds == [][C1_Appended]_vars /\ []C1_Order

\* C1 witness: a control-tx invocation is done and the guest has seen a
\* whole round of PORT_ADD messages on control-rx.
C1_Witness ==
    /\ pc = "done"
    /\ ev.kind = "control_txq"
    /\ Len(SelectSeq(CmdsWritten, LAMBDA c : c.event = VIRTIO_CONSOLE_PORT_ADD)) >= NumPorts

C2_Step ==
    (TxCmdAt(VIRTIO_CONSOLE_PORT_READY) /\ Head(ctl_txq).cmd.id \in Ports) =>
        LET cmd == Head(ctl_txq).cmd IN
        IF cmd.value = 1
        THEN /\ ports'[cmd.id].status = ReadyClosed
             /\ \A p \in Ports \ {cmd.id} : ports'[p] = ports[p]
             /\ cmd_queue' =
                  Append(cmd_queue,
                         [id |-> cmd.id,
                          event |-> IF ports[cmd.id].console
                                    THEN VIRTIO_CONSOLE_CONSOLE_PORT
                                    ELSE VIRTIO_CONSOLE_PORT_OPEN,
                          value |-> 1])
        ELSE /\ ports' = ports
             /\ cmd_queue' = cmd_queue

\* C2: PORT_READY(id, 1) for an existing port sets ports[id].status to
\* Ready{opened:false} and appends exactly one message, CONSOLE_PORT(id,1) for
\* the console port and PORT_OPEN(id,1) otherwise; PORT_READY with another
\* value changes no port and appends nothing.
C2_PortReady == [][C2_Step]_vars

\* C2 witness: the console port and another port were both answered.
C2_Witness ==
    /\ pc = "control_tx"
    /\ cmd_queue = <<[id |-> 0, event |-> VIRTIO_CONSOLE_CONSOLE_PORT, value |-> 1],
                     [id |-> 1, event |-> VIRTIO_CONSOLE_PORT_OPEN, value |-> 1]>>
    /\ ports[0].status = ReadyClosed
    /\ ports[1].status = ReadyClosed

C3_Step ==
    (TxCmdAt(VIRTIO_CONSOLE_PORT_OPEN) /\ Head(ctl_txq).cmd.id \in Ports) =>
        LET cmd == Head(ctl_txq).cmd IN
        /\ cmd.value \in {0, 1} =>
              /\ ports'[cmd.id].status =
                     (IF cmd.value = 1 THEN ReadyOpened ELSE ReadyClosed)
              /\ \A p \in Ports \ {cmd.id} : ports'[p] = ports[p]
        /\ cmd.value \notin {0, 1} => ports' = ports
        /\ loc'.ports_to_resume =
              (IF cmd.value = 1 THEN Append(loc.ports_to_resume, cmd.id)
               ELSE loc.ports_to_resume)

\* process_rx runs inside a control-tx invocation only for ports it was told
\* to open
C3_ResumeOnlyOpened ==
    ev.kind = "control_txq" =>
        \A i \in DOMAIN trace :
            trace[i].op = "process_rx" => trace[i].q \in Range(loc.ports_to_resume)

\* C3: PORT_OPEN(id, v) with v in {0,1} sets ports[id].status to
\* Ready{opened: v = 1} whatever it was; any other v leaves the ports as they
\* are; the port is queued for resume_rx exactly when v = 1, and the receive
\* procedure runs in the invocation only for ports queued that way.
C3_PortOpen == [][C3_Step]_vars /\ []C3_ResumeOnlyOpened

\* C3 witness: a NotReady port with parked input was opened and its input
\* delivered by the resume.
C3_Witness ==
    /\ pc = "done"
    /\ ev.kind = "control_txq"
    /\ ev.pre.ports[RxPort].status = NotReady
    /\ ports[RxPort].status = ReadyOpened
    /\ \E i \in DOMAIN trace :
          /\ trace[i].op = "add_used"
          /\ trace[i].q = port_id_to_queue_idx("Rx", RxPort)

\* C4: a control drain that finds no head on control-rx while the command
\* FIFO is non-empty stops and returns: no state has the drain still running
\* after an iteration that found no head.
C4_DrainStops == spins > 0 => pc # "control_rx"

RxQ(p) == port_id_to_queue_idx("Rx", p)
InputKinds == {"input", "input_eh"}

\* the used lengths the running handler published on the receive queue of p
RxUsed(p) == SelectSeq(trace, LAMBDA e : e.op = "add_used" /\ e.q = RxQ(p))
RxPops(p) == SelectSeq(trace, LAMBDA e : e.op = "pop" /\ e.q = RxQ(p))
RxUndone(p) == \E i \in DOMAIN trace : trace[i].op = "undo_pop" /\ trace[i].q = RxQ(p)

\* C5: a receive head is marked used with a length > 0 only while the port's
\* status is Ready{opened:true}, on every path that runs the receive procedure.
C5_RxOnlyWhenOpened ==
    \A p \in Ports : \A i \in DOMAIN trace :
        (trace[i].op = "add_used" /\ trace[i].q = RxQ(p) /\ trace[i].len > 0)
            => trace[i].st = ReadyOpened

\* C6: an input event for a NotReady port writes nothing to its receive queue
\* and leaves pending_rx true; a control-tx invocation that then makes the
\* port Ready{opened:true}, with a head available and input readable, delivers
\* the parked input.
C6_ParkedThenDelivered ==
    /\ (pc = "done" /\ ev.kind \in InputKinds /\ "IN" \in ev.events
          /\ ev.pre.ports[ev.port].status = NotReady)
         => (ports[ev.port].pending_rx /\ RxUsed(ev.port) = <<>>)
    /\ (pc = "done" /\ ev.kind = "control_txq")
         => \A p \in Ports :
              (/\ ev.pre.ports[p].status = NotReady
               /\ ev.pre.ports[p].pending_rx
               /\ ports[p].status = ReadyOpened
               /\ ev.pre.rxq[p] # <<>>
               /\ Head(ev.pre.rxq[p]).ok
               /\ ev.pre.input[p] > 0)
                  => RxUsed(p) # <<>>

\* C7: a hang-up bit on port p in Ready{opened:true} makes p
\* Ready{opened:false} and appends exactly one message, PORT_OPEN(p, 0), to the
\* command FIFO (written to the guest or still queued).
C7_HangUpClosesPort ==
    (/\ ev.kind \in InputKinds
     /\ ev.events \cap {"HANG_UP", "READ_HANG_UP"} # {}
     /\ ev.pre.ports[ev.port].status = ReadyOpened)
        => /\ ports[ev.port].status = ReadyClosed
           /\ CmdsWritten \o cmd_queue =
                 <<[id |-> ev.port, event |-> VIRTIO_CONSOLE_PORT_OPEN, value |-> 0]>>

\* C8: an input-readable event handled by Console::handle_input of device.rs
\* for a port that is not Ready{opened:true} (NotReady or Ready{opened:false})
\* leaves the input source undrained and pending_rx true.
C8_ParkedWhenNotOpened ==
    (pc = "done" /\ ev.kind = "input" /\ "IN" \in ev.events
       /\ ev.pre.ports[ev.port].status # ReadyOpened)
        => /\ input = ev.pre.input
           /\ ports[ev.port].pending_rx

RECURSIVE SumLen(_, _)
SumLen(seq, k) == IF k = 0 THEN 0 ELSE seq[k].len + SumLen(seq, k - 1)

\* C9: process_rx run by a receive-queue kick.  Every head that took n > 0
\* bytes is marked used with exactly n and the loop goes on to the next head;
\* a head that took nothing is given back (it is the next head of the queue),
\* pending_rx is cleared and the loop stops; the IRQ of a true return is raised
\* iff a head was marked used.
C9_ProcessRx ==
    (pc = "done" /\ ev.kind = "rxq") =>
        LET p == ev.port
            q0 == ev.pre.rxq[p]
            d0 == ev.pre.input[p]
            okq == SelectSeq(q0, LAMBDA h : h.ok)
            U == RxUsed(p)
            np == Len(RxPops(p))
        IN  /\ \A i \in DOMAIN trace :
                  trace[i].op = "read" =>
                      /\ trace[i].len > 0
                      /\ trace[i + 1].op = "add_used"
                      /\ trace[i + 1].q = trace[i].q
                      /\ trace[i + 1].len = trace[i].len
            /\ Len(U) <= Len(okq)
            /\ \A k \in 1 .. Len(U) :
                  U[k].len = Min(okq[k].len, d0 - SumLen(U, k - 1))
            /\ input[p] = d0 - SumLen(U, Len(U))
            /\ IF RxUndone(p)
               THEN /\ input[p] = 0
                    /\ rxq[p] = SubSeq(q0, np, Len(q0))
                    /\ Head(rxq[p]).ok
                    /\ ~ports[p].pending_rx
                    /\ \A i \in DOMAIN trace :
                          trace[i].op = "undo_pop" =>
                              \A j \in (i + 1) .. Len(trace) : trace[j].op = "irq"
               ELSE rxq[p] = <<>>
            /\ (\E i \in DOMAIN trace : trace[i].op = "irq") <=> (U # <<>>)

\* C9 witness: a head of length 2 took the single readable byte and the next
\* head was given back.
C9_Witness ==
    /\ pc = "done"
    /\ ev.kind = "rxq"
    /\ Len(ev.pre.rxq[ev.port]) = 2
    /\ ev.pre.rxq[ev.port][1] = [len |-> 2, ok |-> TRUE]
    /\ ev.pre.input[ev.port] = 1
    /\ Len(RxUsed(ev.port)) = 1
    /\ RxUndone(ev.port)

C10_Cleared ==
    \A p \in Ports :
        (ports[p].pending_rx /\ ~ports'[p].pending_rx)
            => /\ \E i \in DOMAIN trace' :
                     trace'[i].op = "undo_pop" /\ trace'[i].q = RxQ(p)
               /\ input'[p] = 0

C10_SetAndCleared ==
    pc = "done" =>
        \A p \in Ports :
            /\ ((\E i \in DOMAIN trace : trace[i].op = "process_rx" /\ trace[i].q = p)
                  /\ RxPops(p) = <<>>) => ports[p].pending_rx
            /\ RxUndone(p) => ~ports[p].pending_rx

\* C10: when process_rx runs for a port whose receive queue has no available
\* head, pending_rx is true afterwards; pending_rx goes from true to false
\* only in a step in which process_rx popped a head of that port, found the
\* input source empty and gave the head back, and it is false after such a step.
C10_PendingRx == [][C10_Cleared]_vars /\ []C10_SetAndCleared

\* C10 witness: pending_rx was true and a receive run with a head available
\* drained the source and cleared it.
C10_Witness ==
    /\ pc = "done"
    /\ ev.pre.ports[RxPort].pending_rx
    /\ ~ports[RxPort].pending_rx
    /\ RxUsed(RxPort) # <<>>
    /\ RxUndone(RxPort)

\* C11: when a guest memory access fails while a handler is processing a
\* popped head, that head is marked used with length 0 (and the handler goes
\* on): in the console handlers, every failed access is followed at once by
\* the used marking, with length 0, of the head on the same queue.
C11_FailedHeadUsed ==
    \A i \in DOMAIN trace :
        trace[i].op = "error" =>
            /\ i < Len(trace)
            /\ trace[i + 1].op = "add_used"
            /\ trace[i + 1].q = trace[i].q
            /\ trace[i + 1].len = 0

\* ---- net receive path: the delivery attempts of the running handler
\* the pops of the receive queue that returned a chain
Attempts == {k \in DOMAIN trace : trace[k].op = "pop" /\ trace[k].q = RX_INDEX
                                  /\ trace[k].st = ""}
\* the used marking that ends the attempt started by the pop at k
EndOf(k) == CHOOSE j \in (k + 1) .. Len(trace) :
                /\ trace[j].op = "add_used"
                /\ \A m \in (k + 1) .. (j - 1) : trace[m].op = "write_slice"
\* rx_frame_buf[..rx_bytes_read] as the last read before trace index k left it
\* the last read of a frame before trace index k
ReadAt(k) == CHOOSE i \in 1 .. (k - 1) :
                 /\ trace[i].op = "read_frame"
                 /\ \A m \in (i + 1) .. (k - 1) : trace[m].op # "read_frame"
FrameAt(k) == trace[ReadAt(k)].bytes
RECURSIVE ChainLen(_, _)
ChainLen(chain, n) == IF n = 0 THEN 0 ELSE chain[n].len + ChainLen(chain, n - 1)
Writable(chain) == \A d \in DOMAIN chain : chain[d].wo /\ chain[d].ok
TooSmall(k) ==
    /\ Writable(trace[k].bytes)
    /\ ChainLen(trace[k].bytes, Len(trace[k].bytes)) < Len(FrameAt(k))
Fits(k) ==
    /\ Writable(trace[k].bytes)
    /\ ChainLen(trace[k].bytes, Len(trace[k].bytes)) >= Len(FrameAt(k))

\* C12 as stated: a frame longer than the popped chain is dropped; the head
\* is marked used with length 0 and nothing is delivered into a later chain
\* before the next frame is read.
C12_Dropped ==
    \A k \in Attempts :
        TooSmall(k) =>
            /\ trace[EndOf(k)].len = 0
            /\ \A m \in (EndOf(k) + 1) .. Len(trace) :
                  trace[m].op \in {"write_slice", "add_used"} =>
                      \E r \in (EndOf(k) + 1) .. (m - 1) : trace[r].op = "read_frame"

\* C12 amended: a frame longer than the popped chain is not delivered into
\* it, the head is marked used with length 0, and the frame is offered to the
\* next chain of the queue: it is delivered there if that chain holds it, and
\* abandoned when the queue has no further chain; once delivered, the next
\* step is the read of the next frame.
C12_Retried ==
    \A k \in Attempts :
        LET e == EndOf(k) IN
        /\ TooSmall(k) =>
              /\ trace[e].len = 0
              /\ trace[e].st = "DescriptorChainTooSmall"
              /\ e < Len(trace)
              /\ trace[e + 1].op = "pop"
              /\ trace[e + 1].q = RX_INDEX
              /\ trace[e + 1].st = "EmptyQueue" =>
                    (e + 1 < Len(trace) /\ trace[e + 2].op = "read_frame")
              /\ (trace[e + 1].st = "" /\ Fits(e + 1)) =>
                    trace[EndOf(e + 1)].len = Len(FrameAt(k))
        /\ trace[e].len > 0 =>
              (e < Len(trace) /\ trace[e + 1].op = "read_frame")

\* C12 witness: a chain too small for the frame was marked used with 0 and
\* the next chain took the frame.
C12_Witness ==
    /\ pc = "done"
    /\ ev.kind = "passt_rx"
    /\ \E k \in Attempts :
          /\ TooSmall(k)
          /\ trace[EndOf(k) + 1].st = ""
          /\ trace[EndOf(EndOf(k) + 1)].len = Len(FrameAt(k))

\* the bytes of the trace entries from .. to, concatenated
RECURSIVE Cat(_, _)
Cat(from, to) == IF from > to THEN <<>> ELSE trace[from].bytes \o Cat(from + 1, to)

\* C13: a frame delivered into a chain of write-only descriptors of
\* sufficient total length is written in chain order, each descriptor filled
\* up to its length, the writes concatenated are the zero-filled header
\* followed by the frame bytes, and the head is marked used with
\* header_len + frame_len.
C13_SplitInOrder ==
    \A k \in Attempts :
        Fits(k) =>
            LET e == EndOf(k)
                chain == trace[k].bytes
                F == FrameAt(k)
                frame_len == trace[ReadAt(k)].len
            IN  /\ Len(F) = vnet_hdr_len + frame_len
                /\ \A h \in 1 .. vnet_hdr_len : F[h] = 0
                /\ Cat(k + 1, e - 1) = F
                /\ \A m \in (k + 1) .. (e - 1) :
                      /\ trace[m].q = m - k
                      /\ trace[m].len = Min(chain[m - k].len, Len(F) - ChainLen(chain, m - k - 1))
                /\ trace[e].len = vnet_hdr_len + frame_len
                /\ trace[e].st = "Ok"

\* C13 witness: a frame was written into a chain of three descriptors.
C13_Witness ==
    /\ pc = "done"
    /\ ev.kind = "passt_rx"
    /\ \E k \in Attempts :
          /\ Fits(k)
          /\ Len(trace[k].bytes) = 3
          /\ EndOf(k) = k + 4
          /\ trace[EndOf(k)].len = vnet_hdr_len + MaxFrame

\* C14: in the net receive path, a descriptor that is not write-only, reached
\* while frame bytes remain, aborts the delivery into that chain with
\* ReadOnlyDescriptor, and the head is marked used with length 0.
C14_ReadOnlyAborts ==
    \A k \in Attempts :
        LET chain == trace[k].bytes IN
        \A i \in DOMAIN chain :
            (/\ ~chain[i].wo
             /\ \A j \in 1 .. (i - 1) : chain[j].wo /\ chain[j].ok
             /\ ChainLen(chain, i - 1) < Len(FrameAt(k)))
                => /\ EndOf(k) = k + i
                   /\ trace[k + i].st = "ReadOnlyDescriptor"
                   /\ trace[k + i].len = 0

\* C14 witness: a delivery was aborted at the second descriptor of a chain.
C14_Witness ==
    /\ pc = "done"
    /\ ev.kind = "passt_rx"
    /\ \E k \in Attempts :
          /\ Len(trace[k].bytes) = 2
          /\ ~trace[k].bytes[2].wo
          /\ trace[k + 1].op = "write_slice"
          /\ trace[k + 2].st = "ReadOnlyDescriptor"

NetUsed == {i \in DOMAIN trace : trace[i].op = "add_used"}
NetIrqs == {i \in DOMAIN trace : trace[i].op = "irq"}
ReadWouldBlock ==
    \E i \in DOMAIN trace : trace[i].op = "read_frame" /\ trace[i].st = "WouldBlock"

TxPops == {k \in DOMAIN trace : trace[k].op = "pop" /\ trace[k].q = TX_INDEX}
HasWriteOnly(chain) == \E d \in DOMAIN chain : chain[d].wo
AllReadable(chain) == \A d \in DOMAIN chain : ~chain[d].wo /\ chain[d].ok
RECURSIVE ChainBytes(_, _)
ChainBytes(chain, n) == IF n = 0 THEN <<>> ELSE ChainBytes(chain, n - 1) \o chain[n].data
\* the write to the socket made for the chain popped at k did not fail
SocketTook(k) ==
    k < Len(trace) /\ trace[k + 1].st \notin {"WouldBlock", "UnspecifiedIO"}

\* C17: in net process_tx a popped head whose chain contains a write-only
\* descriptor is discarded: nothing is written to the transport for it,
\* process_tx does not abort, and the remaining heads of the tx queue are
\* still processed (here with no failure of the transport).
C17_MalformedDiscarded ==
    (/\ pc \in {"done", "panic"}
     /\ ev.kind = "tx_queue"
     /\ ev.port = 0
     /\ \E h \in DOMAIN ev.pre.txq : HasWriteOnly(ev.pre.txq[h]))
        => /\ pc = "done"
           /\ net.txq = <<>>
           /\ Cardinality(TxPops) = Len(ev.pre.txq)
           /\ \A k \in TxPops :
                 HasWriteOnly(trace[k].bytes) =>
                     ~(k < Len(trace) /\ trace[k + 1].op = "write_frame"
                                      /\ trace[k + 1].st = "Ok")

\* C18 as stated: for a transmit chain of read-only descriptors holding the
\* bytes B, the transport sees the big-endian length of B followed by B, and
\* the head is marked used with length 0.
C18_FrameOnWire ==
    (pc \in {"done", "panic"} /\ ev.kind = "tx_queue") =>
        \A k \in TxPops :
            LET chain == trace[k].bytes
                B == ChainBytes(chain, Len(chain))
            IN  (AllReadable(chain) /\ SocketTook(k)) =>
                    /\ k + 2 <= Len(trace)
                    /\ trace[k + 1].op = "write_frame"
                    /\ trace[k + 1].bytes = to_be_bytes(Len(B)) \o B
                    /\ trace[k + 2].op = "add_used"
                    /\ trace[k + 2].len = 0

\* C18 amended: for a transmit chain of read-only descriptors holding the
\* virtio-net header followed by the frame bytes B, |B| >= 1, the transport
\* sees the big-endian length of B followed by B when the socket takes the
\* write, and the head is marked used with length 0.
C18_HeaderThenFrame ==
    (pc \in {"done", "panic"} /\ ev.kind = "tx_queue") =>
        \A k \in TxPops :
            LET chain == trace[k].bytes
                all == ChainBytes(chain, Len(chain))
                B == Drop(all, vnet_hdr_len)
            IN  (AllReadable(chain) /\ Len(all) > vnet_hdr_len /\ SocketTook(k)) =>
                    /\ k + 2 <= Len(trace)
                    /\ trace[k + 1].op = "write_frame"
                    /\ trace[k + 1].st = "Ok"
                    /\ trace[k + 1].bytes = to_be_bytes(Len(B)) \o B
                    /\ trace[k + 2].op = "add_used"
                    /\ trace[k + 2].q = TX_INDEX
                    /\ trace[k + 2].len = 0

\* C18 witness: a chain of two descriptors, header and frame, went out.
C18_Witness ==
    /\ pc = "done"
    /\ ev.kind = "tx_queue"
    /\ \E k \in TxPops :
          /\ Len(trace[k].bytes) = 2
          /\ AllReadable(trace[k].bytes)
          /\ trace[k + 1].bytes = to_be_bytes(MaxFrame) \o Body(2, MaxFrame)
          /\ trace[k + 2].op = "add_used"

\* C19: in net process_tx every head that was sent is marked used with
\* length 0, and the invocation raises an IRQ at its end iff it marked at
\* least one head used.
C19_TxIrq ==
    (pc = "done" /\ ev.kind = "tx_queue") =>
        /\ \A i \in NetUsed : trace[i].q = TX_INDEX /\ trace[i].len = 0
        /\ \A k \in TxPops :
              (k < Len(trace) /\ trace[k + 1].op = "write_frame" /\ trace[k + 1].st = "Ok")
                  => trace[k + 2].op = "add_used"
        /\ (NetIrqs # {}) <=> (NetUsed # {})
        /\ NetIrqs # {} => (NetIrqs = {Len(trace)})

\* C20: transport round trip.  write_frame with hdr_len >= 4 puts be_u32(L)
\* and the body on the wire; read_frame, for a record whose prefix is
\* readable, returns L only with buf[0..L] equal to the body, also when the
\* payload arrives in more than one chunk.
C20_RoundTrip ==
    /\ \A body \in Bodies : Record(body) = to_be_bytes(Len(body)) \o body
    /\ (pc \in {"done", "panic"} /\ ev.kind = "passt_rx" /\ ev.pre.rxq # <<>>) =>
          \A body \in Bodies :
              (/\ ev.pre.sock \o ev.pre.in_flight = Record(body)
               /\ Len(ev.pre.sock) >= PASST_HEADER_LEN
               /\ trace[1].st = "Ok")
                  => /\ trace[1].len = Len(body)
                     /\ Drop(trace[1].bytes, vnet_hdr_len) = body

\* C21: read_frame returns WouldBlock when the read of the 4-byte length
\* prefix would block and UnspecifiedIO when that read is short (1 to 3
\* bytes), and in both cases its caller regains control: the first read_frame
\* of a receive run ends that way and the handler returns.
C21_PrefixErrors ==
    (pc \in {"done", "panic"} /\ ev.kind = "passt_rx" /\ ev.pre.rxq # <<>>) =>
        LET avail == Readable(ev.pre.sock) IN
        /\ ev.pre.sock = <<>> =>
              (trace[1].op = "read_frame" /\ trace[1].st = "WouldBlock" /\ pc = "done")
        /\ Len(avail) \in 1 .. (PASST_HEADER_LEN - 1) =>
              (trace[1].op = "read_frame" /\ trace[1].st = "UnspecifiedIO" /\ pc = "done")

Irqs == {i \in DOMAIN trace : trace[i].op = "irq"}

\* C23: a control-tx invocation, also one that drains outbound control
\* messages to control-rx, raises at most one IRQ, at its end, and raises it
\* iff it marked some control-tx or control-rx head used.
C23_SingleIrq ==
    (pc \in {"done", "panic"} /\ ev.kind = "control_txq") =>
        /\ Cardinality(Irqs) <= 1
        /\ Irqs # {} => Irqs = {Len(trace)}
        /\ (Irqs # {}) <=>
              \E i \in DOMAIN trace :
                  /\ trace[i].op = "add_used"
                  /\ trace[i].q \in {CONTROL_TXQ_INDEX, CONTROL_RXQ_INDEX}

\* C25: each outbound control message delivered by the control drain is
\* written as the 12-byte record at the popped control-rx head, and that head
\* is marked used with length 12, whatever the length of its descriptor.
C25_RecordUsedLen ==
    \A i \in DOMAIN trace :
        (trace[i].op = "write" /\ trace[i].q = CONTROL_RXQ_INDEX) =>
            /\ trace[i].len = 12
            /\ i < Len(trace) =>
                  /\ trace[i + 1].op = "add_used"
                  /\ trace[i + 1].q = CONTROL_RXQ_INDEX
                  /\ trace[i + 1].len = 12

\* the config-changed interrupts the running handler signalled
ConfigIrqs == {i \in DOMAIN trace : trace[i].op = "config_irq"}

\* C24: the bootstrap config-changed interrupt is signalled by the first
\* process_tx invocation on the console, once, and by no later one.
C24_BootstrapOnce ==
    (pc \in {"done", "panic"} /\ \E i \in DOMAIN trace : trace[i].op = "process_tx") =>
        /\ ev.pre.dev.tx_runs = 0 => Cardinality(ConfigIrqs) = 1
        /\ ev.pre.dev.tx_runs > 0 => ConfigIrqs = {}
        /\ console_dev.configured

\* C24 witness: a later process_tx sent a head to the output and signalled no
\* config change.
C24_Witness ==
    /\ pc = "done"
    /\ ev.kind = "txq"
    /\ ev.pre.dev.tx_runs > 0
    /\ ev.pre.dev.configured
    /\ ConfigIrqs = {}
    /\ \E i \in DOMAIN trace : trace[i].op = "output"

\* ---------------------------------------------------------------- C26
\* a finished activate call on the named device, with its return value
Activated(dev, ret) ==
    /\ pc = "done" /\ ev.kind = "activate" /\ ev.events = {dev}
    /\ trace[1].st = ret

\* C26: for both devices is_activated is false from construction until an
\* activate call succeeds and true in every state after it: the only step
\* that changes the activation state is a successful activate, which makes
\* the device Activated; no step makes an Activated device Inactive; and an
\* activate whose event-fd write fails returns BadActivate and leaves the
\* device as it was.
C26_Activation ==
    /\ ~is_activated(device_state) /\ ~is_activated(net.device_state)
    /\ [][/\ is_activated(device_state) => is_activated(device_state')
          /\ is_activated(net.device_state) => is_activated(net.device_state')
          /\ (~is_activated(device_state) /\ is_activated(device_state')) =>
                 Activated("console", "Ok")'
          /\ (~is_activated(net.device_state) /\ is_activated(net.device_state')) =>
                 Activated("net", "Ok")'
          /\ (pc = "idle" /\ Activated("console", "Ok")') => is_activated(device_state')
          /\ (pc = "idle" /\ Activated("net", "Ok")') => is_activated(net.device_state')
          /\ (pc = "idle" /\ Activated("console", "BadActivate")') =>
                 device_state' = device_state
          /\ (pc = "idle" /\ Activated("net", "BadActivate")') =>
                 net.device_state' = net.device_state]_vars

\* a failed activate left the net device Inactive, the console was activated
\* before it
C26_Witness ==
    /\ Activated("net", "BadActivate")
    /\ ~is_activated(ev.pre.net.device_state) /\ ~is_activated(net.device_state)
    /\ is_activated(device_state)

\* ---------------------------------------------------------------- C27
\* the events of the console's subscriber
ConsoleEvents == {"rxq", "txq", "control_txq", "control_rxq", "input", "sigwinch"}

\* C27: while the console is Inactive, an event delivered to its subscriber
\* does no queue processing: the handler records no pop, add_used or IRQ (its
\* trace stays empty), and the port statuses, the command FIFO, the queues
\* and the device's own fields are left as they were.
C27_InactiveNoProcessing ==
    [][(pc = "idle" /\ pc' # "idle" /\ ev'.kind \in ConsoleEvents
            /\ device_state = "Inactive") =>
          /\ trace' = <<>>
          /\ pc' = "done"
          /\ ports' = ports /\ cmd_queue' = cmd_queue
          /\ ctl_rxq' = ctl_rxq /\ ctl_txq' = ctl_txq /\ rxq' = rxq
          /\ console_dev' = console_dev /\ device_state' = device_state]_vars

\* a transmit-queue kick found the console Inactive with a head available,
\* and the head is still there
C27_Witness ==
    /\ pc = "done" /\ ev.kind = "txq" /\ device_state = "Inactive"
    /\ trace = <<>>
    /\ console_dev.txq[ev.port] # <<>> /\ console_dev = ev.pre.dev
    /\ ~console_dev.configured

\* ---------------------------------------------------------------- C28
\* the config byte image a finished read_config call read from
ConfigImage ==
    IF ev.events = {"console"} THEN VirtioConsoleConfig_as_slice(console_dev.config)
    ELSE net.config_space

\* C28: read_config(offset, dst) leaves dst untouched when offset >=
\* config_len; for offset < config_len it writes exactly
\* min(config_len - offset, dst.len()) bytes at the start of dst, equal to
\* the config byte image from offset on, and leaves the rest of dst unchanged.
C28_ReadConfig ==
    (pc = "done" /\ ev.kind = "read_config") =>
        LET offset == trace[1].q
            dst == trace[1].bytes
            out == trace[2].bytes
            config_len == Len(ConfigImage)
            n == Min(config_len - offset, Len(dst))
        IN  /\ Len(out) = Len(dst)
            /\ offset >= config_len => out = dst
            /\ offset < config_len =>
                  /\ \A i \in 1 .. n : out[i] = ConfigImage[offset + i]
                  /\ \A i \in (n + 1) .. Len(dst) : out[i] = dst[i]

\* a read of two bytes at the last byte of the net configuration, after the
\* guest rewrote that byte: one byte copied, the second left alone
C28_Witness ==
    /\ pc = "done" /\ ev.kind = "read_config" /\ ev.events = {"net"}
    /\ trace[1].q = Len(net.config_space) - 1 /\ trace[1].len = 2
    /\ net.config_space[Len(net.config_space)] = 9
    /\ trace[2].bytes = <<9, 170>>

\* ---------------------------------------------------------------- C29
\* C29: Net write_config(offset, src) with offset + src.len() > config_len
\* is rejected and leaves the config bytes and the cached guest MAC
\* unchanged; otherwise src overlays the config bytes at offset and the
\* cached guest MAC afterwards equals the 6 config bytes.  Console
\* write_config never changes the console configuration.
C29_WriteConfig ==
    (pc = "done" /\ ev.kind = "write_config") =>
        LET offset == trace[1].q
            src == trace[1].bytes
        IN  /\ ev.events = {"console"} =>
                  /\ console_dev.config = ev.pre.dev.config
                  /\ console_dev = ev.pre.dev
            /\ ev.events = {"net"} =>
                  LET old == ev.pre.net
                      config_len == Len(old.config_space)
                  IN  /\ Len(net.config_space) = config_len
                      /\ offset + Len(src) > config_len =>
                            /\ net.config_space = old.config_space
                            /\ net.guest_mac = old.guest_mac
                      /\ offset + Len(src) <= config_len =>
                            /\ \A i \in 1 .. config_len :
                                  net.config_space[i] =
                                      IF i > offset /\ i <= offset + Len(src)
                                      THEN src[i - offset]
                                      ELSE old.config_space[i]
                            /\ net.guest_mac = Some(net.config_space)
                            /\ Len(net.config_space) = MAC_ADDR_LEN

\* a device built without a MAC address got its last two config bytes
\* written: the cached MAC now holds them
C29_Witness ==
    /\ pc = "done" /\ ev.kind = "write_config" /\ ev.events = {"net"}
    /\ ev.pre.net.guest_mac = None
    /\ trace[1].q = MAC_ADDR_LEN - 2 /\ trace[1].bytes = <<9, 8>>
    /\ net.guest_mac = Some(<<0, 0, 0, 0, 9, 8>>)

\* ---------------------------------------------------------------- C30
\* the device a finished adapter call was made on
CalledDev == IF ev.events = {"console"} THEN console_dev ELSE net

\* C30 as stated: in every reachable state of either device the acked
\* feature set is a subset of the available feature set.
C30_AckedSubset ==
    /\ console_dev.acked_features \subseteq console_dev.avail_features
    /\ net.acked_features \subseteq net.avail_features

\* C30, amended: set_acked_features(bits) records bits as they are, the
\* available set is never changed, and the acked set is empty until the first
\* call; so after a call the acked set is a subset of the available set
\* exactly when bits was.
C30_Verbatim ==
    /\ console_dev.avail_features = AVAIL_FEATURES
    /\ net.avail_features \in {Net_new_mac(guest_mac).avail_features : guest_mac \in MacOptions}
    /\ console_dev.acked_features \in {{}} \cup ConsoleAcks
    /\ net.acked_features \in {{}} \cup NetAcks
    /\ (pc = "done" /\ ev.kind = "set_acked_features") =>
          LET bits == trace[1].bytes IN
          /\ CalledDev.acked_features = bits
          /\ CalledDev.avail_features =
                (IF ev.events = {"console"} THEN ev.pre.dev ELSE ev.pre.net).avail_features
          /\ (CalledDev.acked_features \subseteq CalledDev.avail_features)
                <=> (bits \subseteq CalledDev.avail_features)

\* the driver acknowledged a feature the net device does not offer, and the
\* device recorded it
C30_Witness ==
    /\ pc = "done" /\ ev.kind = "set_acked_features" /\ ev.events = {"net"}
    /\ "VIRTIO_NET_F_MQ" \in trace[1].bytes
    /\ "VIRTIO_NET_F_MQ" \notin net.avail_features
    /\ net.acked_features = trace[1].bytes

\* ---------------------------------------------------------------- C31
\* C31: signal_config_update (also when reached from a SIGWINCH event) sets
\* the config-changed bit in interrupt status and then notifies the guest the
\* way signal_used_queue does: by set_irq of the configured line on the
\* interrupt controller when one is present, otherwise by writing 1 to the
\* interrupt event fd.
C31_ConfigIrqLikeUsed ==
    pc \in {"done", "panic"} =>
        \A i \in ConfigIrqs :
            /\ "VIRTIO_MMIO_INT_CONFIG" \in console_dev.interrupt_status
            /\ i < Len(trace)
            /\ IF ev.pre.dev.intc # None
               THEN /\ trace[i + 1].op = "set_irq"
                    /\ ev.pre.dev.irq_line # None =>
                          trace[i + 1].q = ev.pre.dev.irq_line[1]
               ELSE trace[i + 1] = T("interrupt_evt", 0, 1, NoCmd)

\* ---------------------------------------------------------------- C32
\* the queue indices of the ports of the console: ports.len() of them
PortQueueIdx ==
    {<<dir, p>> : dir \in {"Rx", "Tx"}, p \in 0 .. (console_dev.config.max_nr_ports - 1)}

\* C32: for a console built with N >= 1 ports the receive and transmit queue
\* indices of every port p < N are pairwise distinct, differ from the control
\* queue indices 2 and 3, and lie inside the queue vector of 2 + 2*N queues,
\* so that no per-port queue access is out of bounds.
C32_QueuesInBounds ==
    /\ Len(console_dev.queues) = 2 + 2 * console_dev.config.max_nr_ports
    /\ \A a \in PortQueueIdx : \A b \in PortQueueIdx :
          a # b => port_id_to_queue_idx(a[1], a[2]) # port_id_to_queue_idx(b[1], b[2])
    /\ \A a \in PortQueueIdx :
          /\ port_id_to_queue_idx(a[1], a[2]) \notin {CONTROL_RXQ_INDEX, CONTROL_TXQ_INDEX}
          /\ port_id_to_queue_idx(a[1], a[2]) < Len(console_dev.queues)
    /\ ~(pc = "panic" /\ trace[Len(trace)].op = "index_out_of_bounds")

\* ---------------------------------------------------------------- C35
\* C35: for every control message the guest can place on control-tx,
\* PORT_READY and PORT_OPEN naming a port that does not exist included,
\* process_control_tx makes no out-of-range port access: such a message
\* changes no port status and the handler goes on to the next head.
C35_NoOutOfRangePort ==
    [][(/\ pc = "control_tx" /\ ctl_txq # <<>> /\ ctl_txq' = Tail(ctl_txq)
        /\ Head(ctl_txq).ok
        /\ Head(ctl_txq).cmd.event \in {VIRTIO_CONSOLE_PORT_READY, VIRTIO_CONSOLE_PORT_OPEN}
        /\ Head(ctl_txq).cmd.id \notin Ports) =>
            /\ pc' = "control_tx"
            /\ ports' = ports]_vars

\* ---------------------------------------------------------------- C33
\* the trace entries of an operation on a queue
OpsOn(op, q) == {i \in DOMAIN trace : trace[i].op = op /\ trace[i].q = q}

\* C33: no head is leaked: when a handler has returned, every head it
\* obtained by pop was either marked used with add_used or returned with
\* undo_pop, also on the paths where an access to guest memory failed.
C33_NoHeadLeaked ==
    pc = "done" =>
        \A q \in {trace[i].q : i \in DOMAIN trace} :
            Cardinality(OpsOn("pop", q)) =
                Cardinality(OpsOn("add_used", q)) + Cardinality(OpsOn("undo_pop", q))

\* ---------------------------------------------------------------- C34
\* the used markings and the IRQs of the running handler, on any queue
UsedMarks == {i \in DOMAIN trace : trace[i].op = "add_used"}

\* C34: every event-handler invocation that marked at least one head used
\* has raised an IRQ toward the guest when it returns to the event loop, also
\* when the used heads come from process_rx inside an input event.
C34_UsedThenIrq ==
    (pc = "done" /\ UsedMarks # {}) =>
        \E k \in Irqs : \A i \in UsedMarks : i < k

\* ---------------------------------------------------------------- C36
\* the control messages the running handler wrote to the guest, in order
RECURSIVE WritesOf(_)
WritesOf(tr) ==
    IF tr = <<>> THEN <<>>
    ELSE IF Head(tr).op = "write" /\ Head(tr).q = CONTROL_RXQ_INDEX
         THEN <<Head(tr).cmd>> \o WritesOf(Tail(tr))
         ELSE WritesOf(Tail(tr))

\* a drain found control-rx empty and outbound messages are pending
DrainPending == pc = "control_rx" /\ spins > 0 /\ cmd_queue # <<>>

\* C36: outbound control messages left pending in the command FIFO because
\* control-rx had no descriptor are eventually delivered, provided the guest
\* keeps adding control-rx descriptors: the FIFO eventually becomes empty,
\* and a message leaves the FIFO only from its front and only by being
\* written to the guest, once, so that the messages are written in FIFO
\* order.
C36_EventuallyDelivered ==
    /\ DrainPending ~> (cmd_queue = <<>>)
    /\ [][(pc = "control_rx" /\ cmd_queue' # cmd_queue) =>
             /\ cmd_queue # <<>>
             /\ cmd_queue' = Tail(cmd_queue)
             /\ WritesOf(trace') = Append(WritesOf(trace), Head(cmd_queue))]_vars
    /\ [][(pc = "control_rx" /\ WritesOf(trace') # WritesOf(trace)) =>
             cmd_queue' # cmd_queue]_vars

\* a drain that had found control-rx empty has returned with the FIFO empty,
\* after it wrote two messages in their order to heads the guest added
C36_Witness ==
    /\ pc = "done" /\ spins > 0 /\ cmd_queue = <<>>
    /\ ev.kind = "control_txq"
    /\ WritesOf(trace) = PortAdds
    /\ ctl_rxq = <<>>

\* ---------------------------------------------------------------- C37
\* the frames the running receive loop read from the transport, and its
\* pops that found the rx queue empty
FramesRead == {i \in DOMAIN trace : trace[i].op = "read_frame" /\ trace[i].st = "Ok"}
EmptyPops ==
    {i \in DOMAIN trace : trace[i].op = "pop" /\ trace[i].q = RX_INDEX
                             /\ trace[i].st = "EmptyQueue"}

\* C37: within one run of Net::process_rx, once a delivery attempt found the
\* rx queue empty the loop reads no further frame from the transport; so at
\* most one frame of the run is read without being offered to a descriptor
\* chain of the guest.
C37_StopOnEmptyQueue ==
    (pc \in {"done", "panic"} /\ ev.kind = "passt_rx") =>
        /\ \A e \in EmptyPops : \A r \in FramesRead : r < e
        /\ Cardinality({r \in FramesRead : r + 1 \in EmptyPops}) <= 1
====
